---- MODULE Spec2Model ----
(***************************************************************************)
(* The chat relay server of server.c with its handle table                 *)
(* (handleTable.c), the PDU framing layer (pdu.c) and the registration     *)
(* handshake of the client (cclient.c).                                    *)
(*                                                                         *)
(* Bytes are naturals 0..255, buffers are sequences of bytes (1-indexed,   *)
(* so the C index i is the TLA+ index i+1).  A handle held in a char[]     *)
(* buffer is the C string of the bytes copied into it: the bytes before    *)
(* the first NUL.                                                          *)
(***************************************************************************)
EXTENDS Integers, Sequences, FiniteSets, TLC

VARIABLES
    table,      \* handleTable.c `head`: the linked list, head first
    open,       \* descriptors of the accepted connections not yet close()d
    pollSet,    \* descriptors in the poll set (the listening socket left out)
    regd,       \* descriptors whose present connection had a flag 1 accepted
    running,    \* FALSE once the server process has called exit() or has
                \* been aborted
    last,       \* the iteration of the main loop in progress: what was
                \* ready and what recvPDU gave; Idle while in pollCall
    sent,       \* the sendPDU calls of that iteration, in order:
                \* <<socket, data>>
    client,     \* one cclient process: where it is, its handle and, of its
                \* last iteration, what it read, the sendPDU calls it made,
                \* what its recvPDU calls were given, what it printed; its
                \* exit status
    history,    \* the iterations of processClientSocket so far, oldest
                \* first, in the specification that keeps them (SpecRelay)
    net         \* the connection between the cclient process and the
                \* server, in the specification that joins them (SpecList):
                \* its state, the PDUs in flight each way, oldest first,
                \* the list requests sent and the list replies assembled

vars == <<table, open, pollSet, regd, running, last, sent, client, history,
          net>>

----------------------------------------------------------------------------
(* Program constants *)

MAXBUF == 1400
MAX_HANDLE == 100

(* Bounds of the model *)

MaxSock == 2        \* client descriptors the operating system hands out
MaxDest == 2        \* destinations listed in one flag-6 PDU
MaxCount == 2       \* handles announced by one flag-11 PDU
MaxEntries == 3     \* entries of the handle table when it is driven directly
MaxLog == 4         \* iterations kept in history
MaxQueue == 2       \* PDUs in flight each way before a sender waits
MaxAsk == 2         \* list requests the user types in all

Socks == 1..MaxSock

NOSOCK == -1            \* lookupSocketByHandle: not found
NULL == <<-1>>          \* lookupHandleBySocket: not found

----------------------------------------------------------------------------
(* C strings *)

\* the index of the first NUL of b, Len(b) + 1 when it has none
NulPos(b) ==
    LET z == {i \in 1..Len(b) : b[i] = 0}
    IN  IF z = {} THEN Len(b) + 1 ELSE CHOOSE i \in z : \A j \in z : i <= j

\* The C string at the start of b: what strlen, strcmp and strncpy see.
CStr(b) == SubSeq(b, 1, NulPos(b) - 1)

Min(a, b) == IF a < b THEN a ELSE b

\* s[i] of the C string s (i from 1): the terminating NUL at its end
CharAt(s, i) == IF i \in 1..Len(s) THEN s[i] ELSE 0

\* toupper in the C locale
toupper(ch) == IF ch \in 97..122 THEN ch - 32 ELSE ch

(* strtok with the one-character delimiter set {d}, scanning the C string  *)
(* s from position p (the saved pointer; 1 for a first call): tok is the   *)
(* token or NULL, next the saved pointer afterwards.                       *)
strtok(s, p, d) ==
    LET starts == {i \in p..Len(s) : s[i] # d} IN
    IF starts = {} THEN [tok |-> NULL, next |-> Len(s) + 1]
    ELSE
    LET b == CHOOSE i \in starts : \A j \in starts : i <= j
        ends == {i \in b..Len(s) : s[i] = d}
        e == IF ends = {} THEN Len(s) + 1
             ELSE CHOOSE i \in ends : \A j \in ends : i <= j
    IN  [tok |-> SubSeq(s, b, e - 1),
         next |-> IF e <= Len(s) THEN e + 1 ELSE Len(s) + 1]

\* the value of the decimal digits at the start of s
RECURSIVE Digits(_, _)
Digits(s, acc) ==
    IF s = <<>> \/ Head(s) \notin 48..57 THEN acc
    ELSE Digits(Tail(s), 10 * acc + (Head(s) - 48))

\* atoi for a token without white space: optional sign, then digits
atoi(s) ==
    IF s # <<>> /\ Head(s) = 45 THEN 0 - Digits(Tail(s), 0)
    ELSE IF s # <<>> /\ Head(s) = 43 THEN Digits(Tail(s), 0)
    ELSE Digits(s, 0)

----------------------------------------------------------------------------
(* handleTable.c *)

\* Variant: addHandle that never links the new entry in (head unchanged).
addHandle_NoLink(t, handle, socket) == t

\* Variant: addHandle that links the new entry in at the tail of the list.
addHandle_AtTail(t, handle, socket) ==
    t \o <<[handle |-> SubSeq(CStr(handle), 1, Min(Len(CStr(handle)), 100)),
             socket |-> socket]>>

\* strncpy(newEntry->handle, handle, 100); newEntry->handle[100] = '\0';
\* the new entry becomes the head of the list.
addHandle(t, handle, socket) ==
    <<[handle |-> SubSeq(CStr(handle), 1, Min(Len(CStr(handle)), 100)),
       socket |-> socket]>> \o t

\* Variant: removeHandleBySocket that unlinks every entry of the socket.
removeHandleBySocket_All(t, socket) ==
    SelectSeq(t, LAMBDA entry : entry.socket # socket)

RECURSIVE removeHandleBySocket(_, _)
removeHandleBySocket(t, socket) ==
    IF t = <<>> THEN <<>>
    ELSE IF Head(t).socket = socket THEN Tail(t)
    ELSE <<Head(t)>> \o removeHandleBySocket(Tail(t), socket)

\* the return value of removeHandleBySocket
removeHandleResult(t, socket) ==
    IF \E i \in 1..Len(t) : t[i].socket = socket THEN 0 ELSE -1

RECURSIVE lookupSocketByHandle(_, _)
lookupSocketByHandle(t, handle) ==
    IF t = <<>> THEN NOSOCK
    ELSE IF Head(t).handle = CStr(handle) THEN Head(t).socket
    ELSE lookupSocketByHandle(Tail(t), handle)

RECURSIVE lookupHandleBySocket(_, _)
lookupHandleBySocket(t, socket) ==
    IF t = <<>> THEN NULL
    ELSE IF Head(t).socket = socket THEN Head(t).handle
    ELSE lookupHandleBySocket(Tail(t), socket)

getHandleCount(t) == Len(t)

----------------------------------------------------------------------------
(* pdu.c *)

\* One sendPDU call appended to the calls made so far.  server.c never reads
\* the return value; the bytes handed to send() are the two-byte header
\* (see PduHeader) followed by dataBuffer.
sendPDU(out, socketNumber, dataBuffer) ==
    Append(out, <<socketNumber, dataBuffer>>)

\* Variant: the header copied in host byte order of a little-endian machine
\* (no htons).
PduHeader_HostOrder(lengthOfData) ==
    <<(lengthOfData + 2) % 256, ((lengthOfData + 2) \div 256) % 256>>

\* htons(lengthOfData + 2) as the two bytes copied to the front of the PDU
PduHeader(lengthOfData) ==
    <<((lengthOfData + 2) \div 256) % 256, (lengthOfData + 2) % 256>>

(* What the stream delivers to one recvPDU call:                           *)
(*   hret    the first recv(): 2, 1 (partial), 0 (closed) or -1 (failed)   *)
(*   reset   errno = ECONNRESET when a recv() failed                       *)
(*   hdr     the two header bytes                                          *)
(*   pret    the second recv(): bytes delivered, 0 (closed) or -1 (failed) *)
(*   data    the payload bytes delivered                                   *)
Frame(p) ==
    [hret |-> 2, reset |-> FALSE, hdr |-> PduHeader(Len(p)),
     pret |-> Len(p), data |-> p]

\* the buffer pdu that sendPDU builds and hands to safeSend in one call
PduBytes(dataBuffer) == PduHeader(Len(dataBuffer)) \o dataBuffer

\* what sendPDU returns when safeSend returned bytesSent
sendPDUReturn(bytesSent) == IF bytesSent < 0 THEN -1 ELSE bytesSent - 2

(* What the two recv(MSG_WAITALL) calls of recvPDU get from a byte stream  *)
(* whose sender closes after the last byte: the first takes two bytes, the *)
(* second as many as the header asks for (a length below 0 becomes a huge  *)
(* size_t: everything that arrives), each cut short where the stream ends. *)
Deliver(stream) ==
    LET n == Len(stream)
        hret == Min(2, n)
        hdr == IF n >= 2 THEN SubSeq(stream, 1, 2)
               ELSE stream \o [i \in 1..(2 - n) |-> 0]
        want == hdr[1] * 256 + hdr[2] - 2
        pret == IF hret < 2 THEN 0
                ELSE IF want < 0 THEN n - 2
                ELSE Min(want, n - 2)
    IN  [hret |-> hret, reset |-> FALSE, hdr |-> hdr, pret |-> pret,
         data |-> SubSeq(stream, 3, 2 + pret)]

\* the bytes of stream after those that Deliver(stream) took
Rest(stream) == SubSeq(stream, 3 + Deliver(stream).pret, Len(stream))

\* Variant: recvPDU that returns -1 for every failed recv(), ECONNRESET too.
recvPDU_ResetIsError(w, bufferSize) ==
    LET none == [ret |-> 0, buf |-> <<>>, exit |-> FALSE] IN
    IF w.hret < 0 THEN [none EXCEPT !.ret = -1]
    ELSE IF w.hret = 0 THEN none
    ELSE IF w.hret # 2 THEN [none EXCEPT !.ret = -1]
    ELSE
        LET totalLen == w.hdr[1] * 256 + w.hdr[2]
            payloadLen == totalLen - 2
        IN  IF payloadLen > bufferSize THEN [none EXCEPT !.exit = TRUE]
            ELSE IF w.pret < 0 THEN [none EXCEPT !.ret = -1]
            ELSE IF w.pret = 0 THEN none
            ELSE IF w.pret # payloadLen THEN
                [ret |-> -1, buf |-> w.data, exit |-> FALSE]
            ELSE [ret |-> payloadLen, buf |-> w.data, exit |-> FALSE]

\* recvPDU: [ret, buf, exit]; buf is dataBuffer after the call
recvPDU(w, bufferSize) ==
    LET none == [ret |-> 0, buf |-> <<>>, exit |-> FALSE] IN
    IF w.hret < 0 THEN
        IF w.reset THEN none ELSE [none EXCEPT !.ret = -1]
    ELSE IF w.hret = 0 THEN none
    ELSE IF w.hret # 2 THEN [none EXCEPT !.ret = -1]
    ELSE
        LET totalLen == w.hdr[1] * 256 + w.hdr[2]
            payloadLen == totalLen - 2
        IN  IF payloadLen > bufferSize THEN [none EXCEPT !.exit = TRUE]
            ELSE IF w.pret < 0 THEN
                IF w.reset THEN none ELSE [none EXCEPT !.ret = -1]
            ELSE IF w.pret = 0 THEN none
            ELSE IF w.pret # payloadLen THEN
                [ret |-> -1, buf |-> w.data, exit |-> FALSE]
            ELSE [ret |-> payloadLen, buf |-> w.data, exit |-> FALSE]

\* successive recvPDU calls on a byte stream, until it is used up or a call
\* does not return a payload: the results in order
RECURSIVE RecvAll(_, _)
RecvAll(stream, bufferSize) ==
    IF stream = <<>> THEN <<>>
    ELSE LET r == recvPDU(Deliver(stream), bufferSize) IN
         IF r.exit \/ r.ret <= 0 THEN <<r>>
         ELSE <<r>> \o RecvAll(Rest(stream), bufferSize)

----------------------------------------------------------------------------
(* server.c: the packet handlers.  Each yields                             *)
(*   table   the handle table afterwards                                   *)
(*   sent    the sendPDU calls made, in order                              *)
(*   closed  the descriptors close()d and removed from the poll set        *)

Result(t, out, cl) == [table |-> t, sent |-> out, closed |-> cl]

\* buffer + off .. buffer + off + n - 1 (off is the C offset)
Bytes(buffer, off, n) == SubSeq(buffer, off + 1, off + n)

sendErrorPacket(out, sock, destHandle) ==
    LET hlen == Len(CStr(destHandle)) % 256
    IN  sendPDU(out, sock, <<7, hlen>> \o SubSeq(CStr(destHandle), 1, hlen))

\* Variant: processRegistration without the lookupSocketByHandle test.
processRegistration_NoDupCheck(t, sock, buffer, len) ==
    IF len < 2 THEN Result(t, <<>>, {})
    ELSE
    LET hlen == buffer[2] IN
    IF len < 2 + hlen THEN Result(t, <<>>, {})
    ELSE IF hlen > MAX_HANDLE THEN
        Result(t, sendPDU(<<>>, sock, <<3>>), {sock})
    ELSE
        Result(addHandle(t, CStr(Bytes(buffer, 2, hlen)), sock),
               sendPDU(<<>>, sock, <<2>>), {})

processRegistration(t, sock, buffer, len) ==
    IF len < 2 THEN Result(t, <<>>, {})
    ELSE
    LET hlen == buffer[2] IN
    IF len < 2 + hlen THEN Result(t, <<>>, {})
    ELSE IF hlen > MAX_HANDLE THEN
        Result(t, sendPDU(<<>>, sock, <<3>>), {sock})
    ELSE
    LET handle == CStr(Bytes(buffer, 2, hlen)) IN
    IF lookupSocketByHandle(t, handle) # NOSOCK THEN
        Result(t, sendPDU(<<>>, sock, <<3>>), {sock})
    ELSE
        Result(addHandle(t, handle, sock), sendPDU(<<>>, sock, <<2>>), {})

\* the loop over the list from its head: one sendPDU per entry of another socket
RECURSIVE BroadcastLoop(_, _, _, _)
BroadcastLoop(entries, sock, buffer, out) ==
    IF entries = <<>> THEN out
    ELSE BroadcastLoop(Tail(entries), sock, buffer,
            IF Head(entries).socket # sock
            THEN sendPDU(out, Head(entries).socket, buffer)
            ELSE out)

processBroadcast(t, sock, buffer, len) ==
    IF len < 2 THEN Result(t, <<>>, {})
    ELSE
    LET shLen == buffer[2] IN
    IF len < 2 + shLen THEN Result(t, <<>>, {})
    ELSE Result(t, BroadcastLoop(t, sock, buffer, <<>>), {})

\* Variant: processMessage that forwards without testing destSock == -1.
processMessage_NoLookupCheck(t, sock, buffer, len) ==
    IF len < 2 THEN Result(t, <<>>, {})
    ELSE
    LET shLen == buffer[2]
        off1 == 2 + shLen
    IN
    IF len < off1 + 1 THEN Result(t, <<>>, {})
    ELSE IF buffer[off1 + 1] # 1 THEN Result(t, <<>>, {})
    ELSE IF len < off1 + 2 THEN Result(t, <<>>, {})
    ELSE
    LET dhLen == buffer[off1 + 2]
        off3 == off1 + 2
    IN
    IF len < off3 + dhLen THEN Result(t, <<>>, {})
    ELSE Result(t, sendPDU(<<>>,
                    lookupSocketByHandle(t, CStr(Bytes(buffer, off3, dhLen))),
                    buffer), {})

processMessage(t, sock, buffer, len) ==
    IF len < 2 THEN Result(t, <<>>, {})
    ELSE
    LET shLen == buffer[2]
        off1 == 2 + shLen
    IN
    IF len < off1 THEN Result(t, <<>>, {})
    ELSE IF len < off1 + 1 THEN Result(t, <<>>, {})
    ELSE
    LET destCount == buffer[off1 + 1]
        off2 == off1 + 1
    IN
    IF destCount # 1 THEN Result(t, <<>>, {})
    ELSE IF len < off2 + 1 THEN Result(t, <<>>, {})
    ELSE
    LET dhLen == buffer[off2 + 1]
        off3 == off2 + 1
    IN
    IF len < off3 + dhLen THEN Result(t, <<>>, {})
    ELSE
    LET destHandle == CStr(Bytes(buffer, off3, dhLen))
        destSock == lookupSocketByHandle(t, destHandle)
    IN
    IF destSock = NOSOCK
    THEN Result(t, sendErrorPacket(<<>>, sock, destHandle), {})
    ELSE Result(t, sendPDU(<<>>, destSock, buffer), {})

\* Variant: the loop of processMulticast leaving at the first destination
\* that does not resolve, after its error packet.
RECURSIVE MulticastLoop_StopsAtFailure(_, _, _, _, _, _, _, _)
MulticastLoop_StopsAtFailure(t, sock, buffer, len, numDest, i, off, out) ==
    IF i >= numDest THEN out
    ELSE IF len < off + 1 THEN out
    ELSE
    LET dlen == buffer[off + 1] IN
    IF len < off + 1 + dlen THEN out
    ELSE
    LET destHandle == CStr(Bytes(buffer, off + 1, dlen))
        destSock == lookupSocketByHandle(t, destHandle)
    IN  IF destSock = NOSOCK
        THEN sendErrorPacket(out, sock, destHandle)
        ELSE MulticastLoop_StopsAtFailure(t, sock, buffer, len, numDest,
                i + 1, off + 1 + dlen, sendPDU(out, destSock, buffer))

\* the for loop of processMulticast from iteration i at offset off
RECURSIVE MulticastLoop(_, _, _, _, _, _, _, _)
MulticastLoop(t, sock, buffer, len, numDest, i, off, out) ==
    IF i >= numDest THEN out
    ELSE IF len < off + 1 THEN out
    ELSE
    LET dlen == buffer[off + 1] IN
    IF len < off + 1 + dlen THEN out
    ELSE
    LET destHandle == CStr(Bytes(buffer, off + 1, dlen))
        destSock == lookupSocketByHandle(t, destHandle)
    IN  MulticastLoop(t, sock, buffer, len, numDest, i + 1, off + 1 + dlen,
            IF destSock = NOSOCK
            THEN sendErrorPacket(out, sock, destHandle)
            ELSE sendPDU(out, destSock, buffer))

processMulticast(t, sock, buffer, len) ==
    IF len < 2 THEN Result(t, <<>>, {})
    ELSE
    LET shLen == buffer[2]
        off1 == 2 + shLen
    IN
    IF len < off1 THEN Result(t, <<>>, {})
    ELSE IF len < off1 + 1 THEN Result(t, <<>>, {})
    ELSE
    LET numDest == buffer[off1 + 1] IN
    Result(t, MulticastLoop(t, sock, buffer, len, numDest, 0, off1 + 1, <<>>), {})

\* the first destination iteration of processMulticast, from iteration i at
\* offset off, whose memcpy into destHandle[MAX_HANDLE+1] copies more than
\* MAX_HANDLE bytes; -1 when there is none
RECURSIVE LongDest(_, _, _, _, _)
LongDest(buffer, len, numDest, i, off) ==
    IF i >= numDest THEN -1
    ELSE IF len < off + 1 THEN -1
    ELSE
    LET dlen == buffer[off + 1] IN
    IF len < off + 1 + dlen THEN -1
    ELSE IF dlen > MAX_HANDLE THEN i
    ELSE LongDest(buffer, len, numDest, i + 1, off + 1 + dlen)

(* processBroadcast, processMessage and processMulticast copy shLen, dhLen *)
(* and dlen bytes into char[MAX_HANDLE+1] arrays after testing the length  *)
(* against len only.  OverflowAt is -1 when every copy of the handler fits *)
(* and else the number of destination iterations completed before the     *)
(* first copy of more than MAX_HANDLE bytes.                               *)
OverflowAt(buffer, len) ==
    IF buffer[1] \notin {4, 5, 6} \/ len < 2 THEN -1
    ELSE
    LET shLen == buffer[2]
        off1 == 2 + shLen
    IN
    IF len < off1 THEN -1
    ELSE IF shLen > MAX_HANDLE THEN 0
    ELSE IF buffer[1] = 4 \/ len < off1 + 1 THEN -1
    ELSE IF buffer[1] = 5 THEN
        (IF buffer[off1 + 1] # 1 \/ len < off1 + 2 THEN -1
         ELSE IF len < off1 + 2 + buffer[off1 + 2] THEN -1
         ELSE IF buffer[off1 + 2] > MAX_HANDLE THEN 0 ELSE -1)
    ELSE LongDest(buffer, len, buffer[off1 + 1], 0, off1 + 1)

\* the sendPDU calls a handler has made when it reaches the copy that
\* OverflowAt(buffer, len) = at stands for
SentBefore(t, sock, buffer, len, at) ==
    IF buffer[1] = 6 /\ buffer[2] <= MAX_HANDLE
    THEN MulticastLoop(t, sock, buffer, len, at, 0, 2 + buffer[2] + 1, <<>>)
    ELSE <<>>

(* Writing past the end of a local array is undefined.  What a build does: *)
(* the bytes land in unused stack and the handler goes on ("unharmed");    *)
(* the stack protector ends the process when the handler returns ("abort   *)
(* at return"); the fortified memcpy ends it at the copy ("abort at        *)
(* copy").                                                                 *)
UBOutcomes == {"unharmed", "abort at return", "abort at copy"}

\* htonl(count) as the four bytes copied into the flag-11 packet
CountBytes(count) ==
    <<(count \div 16777216) % 256, (count \div 65536) % 256,
      (count \div 256) % 256, count % 256>>

\* Variant: the loop of processListRequest leaving out the entries of the
\* requesting socket.
RECURSIVE ListLoop_SkipsRequester(_, _, _)
ListLoop_SkipsRequester(entries, sock, out) ==
    IF entries = <<>> THEN out
    ELSE LET hlen == Len(Head(entries).handle) % 256 IN
         ListLoop_SkipsRequester(Tail(entries), sock,
            IF Head(entries).socket = sock THEN out
            ELSE sendPDU(out, sock,
                    <<12, hlen>> \o SubSeq(Head(entries).handle, 1, hlen)))

\* the while loop of processListRequest: one flag-12 packet per entry
RECURSIVE ListLoop(_, _, _)
ListLoop(entries, sock, out) ==
    IF entries = <<>> THEN out
    ELSE LET hlen == Len(Head(entries).handle) % 256 IN
         ListLoop(Tail(entries), sock,
            sendPDU(out, sock, <<12, hlen>> \o SubSeq(Head(entries).handle, 1, hlen)))

processListRequest(t, sock, buffer, len) ==
    LET first == sendPDU(<<>>, sock, <<11>> \o CountBytes(getHandleCount(t)))
    IN  Result(t, sendPDU(ListLoop(t, sock, first), sock, <<13>>), {})

\* the switch of processClientSocket on buf[0]
Dispatch(t, sock, buf, len) ==
    CASE buf[1] = 1  -> processRegistration(t, sock, buf, len)
      [] buf[1] = 4  -> processBroadcast(t, sock, buf, len)
      [] buf[1] = 5  -> processMessage(t, sock, buf, len)
      [] buf[1] = 6  -> processMulticast(t, sock, buf, len)
      [] buf[1] = 10 -> processListRequest(t, sock, buf, len)
      [] OTHER       -> Result(t, <<>>, {})

----------------------------------------------------------------------------
(* The PDUs and stream events the clients may produce *)

hA == <<97>>
hB == <<98>>
hEmpty == <<>>
hNul == <<97, 0, 98>>                       \* a NUL inside the handle bytes
hMax == [i \in 1..MAX_HANDLE |-> 99]
hOver == [i \in 1..(MAX_HANDLE + 1) |-> 99]

Names == {hA, hB}
tEmpty == <<0>>
tHi == <<104, 105, 0>>

RegistrationPdu(h) == <<1, Len(h)>> \o h
BroadcastPdu(sender, text) == <<4, Len(sender)>> \o sender \o text
ErrorPdu(h) == <<7, Len(h)>> \o h

\* the flag-12 packet that carries handle h
HandlePdu(h) == <<12, Len(h)>> \o h

\* the flag-11 packet that carries count n
CountPdu(n) == <<11>> \o CountBytes(n)

RECURSIVE DestBytes(_)
DestBytes(dests) ==
    IF dests = <<>> THEN <<>>
    ELSE <<Len(Head(dests))>> \o Head(dests) \o DestBytes(Tail(dests))

\* flag 5 and flag 6 share the shape: sender, count n, destinations, text
MessagePdu(flag, sender, n, dests, text) ==
    <<flag, Len(sender)>> \o sender \o <<n>> \o DestBytes(dests) \o text

DestLists == UNION {[1..k -> Names] : k \in 1..MaxDest}

BroadcastPdus == {BroadcastPdu(hA, tEmpty), BroadcastPdu(hB, tHi)}
UnicastPdus == {MessagePdu(5, hA, 1, <<d>>, tHi) : d \in Names}
MulticastPdus == {MessagePdu(6, hA, Len(ds), ds, tHi) : ds \in DestLists}

\* the PDUs of the clients of Spec: short handles, every flag
Pdus ==
    {RegistrationPdu(h) : h \in {hA, hB, hNul}}
        \cup BroadcastPdus \cup UnicastPdus \cup MulticastPdus
        \cup {<<10>>, <<9>>}

\* the PDUs of the clients of SpecHandles: registrations of every length
HandlePdus ==
    {RegistrationPdu(h) : h \in {hA, hEmpty, hNul, hMax, hOver}}
        \cup {<<1>>, <<1, 2, 97>>, MessagePdu(5, hA, 1, <<hA>>, tEmpty)}

PeerClosed == [hret |-> 0, reset |-> FALSE, hdr |-> <<0, 0>>, pret |-> 0, data |-> <<>>]
RecvError == [PeerClosed EXCEPT !.hret = -1]
Oversize == [PeerClosed EXCEPT !.hret = 2, !.hdr = PduHeader(MAXBUF + 1)]

Wire == {Frame(p) : p \in Pdus} \cup {PeerClosed, RecvError, Oversize}
HandleWire == {Frame(p) : p \in HandlePdus} \cup {PeerClosed}

\* payloads of every size of header: one byte, 254 bytes (total length
\* 0x0100) and MAXBUF bytes, the long ones with a flag the server ignores
pFill(n) == [i \in 1..n |-> 120]
PduPayloads ==
    {RegistrationPdu(hA), RegistrationPdu(hB), <<10>>,
     pFill(254), pFill(MAXBUF)}

Reset == [PeerClosed EXCEPT !.hret = -1, !.reset = TRUE]
PartialHeader == Deliver(<<0>>)
EmptyPdu == Deliver(<<0, 2>>)                 \* total length 2: no payload
ShortLength == Deliver(<<0, 1>>)              \* total length 1, then closed
ShortLengthData == Deliver(<<0, 0, 1, 1, 97>>)  \* total length 0, then bytes
PartialPayload == Deliver(<<0, 5, 1, 1>>)     \* 2 of the 3 payload bytes
PayloadClosed == Deliver(<<0, 5>>)            \* closed after the header
PayloadReset == [PayloadClosed EXCEPT !.pret = -1, !.reset = TRUE]
PayloadError == [PayloadClosed EXCEPT !.pret = -1]

\* the streams of the clients of SpecPdu: what sendPDU wrote, as recv()
\* delivers it, and every way the two recv() calls can fall short
PduWire ==
    {Deliver(PduBytes(p)) : p \in PduPayloads}
        \cup {PeerClosed, RecvError, Reset, PartialHeader, Oversize, EmptyPdu,
              ShortLength, ShortLengthData, PartialPayload, PayloadClosed,
              PayloadReset, PayloadError}

----------------------------------------------------------------------------
(* cclient.c: main up to the command loop *)

(* the connection of the cclient process *)

\* no connection kept
NoNet ==
    [on |-> FALSE, conn |-> "none", up |-> <<>>, down |-> <<>>,
     asked |-> 0, listed |-> 0]

\* the descriptor tcpAccept gives the server for the connection of the
\* cclient process: the lowest one, the process connecting first
ClientSock == 1

\* the data of the sendPDU calls of out made on descriptor s, in order
Payloads(out, s) ==
    LET on == SelectSeq(out, LAMBDA call : call[1] = s)
    IN  [i \in 1..Len(on) |-> on[i][2]]

\* c, an iteration of clientControlLoop that ended, was the assembly of a list
ListAssembled(c) ==
    /\ c.pc = "clientControlLoop" /\ c.op = "socket"
    /\ LET r == recvPDU(c.stream[1], MAXBUF)
       IN  ~r.exit /\ r.ret >= 5 /\ r.buf[1] = 11

\* n after main ran to c: tcpClientSetup connected, sendRegistration wrote
Connected(n, c) ==
    IF n.on /\ c.pc # "exited"
    THEN [n EXCEPT !.conn = "pending", !.up = @ \o Payloads(c.out, 3)]
    ELSE n

\* n after the iteration of the client that ended in c wrote its PDUs
Written(n, c) ==
    IF n.on
    THEN [n EXCEPT !.up = @ \o Payloads(c.out, 3),
                   !.asked = @ + Len(SelectSeq(Payloads(c.out, 3),
                                               LAMBDA p : p = <<10>>))]
    ELSE n

\* n after the client, ending in c, took k PDUs from its socket
Read(n, c, k) ==
    IF n.on
    THEN [n EXCEPT !.down = SubSeq(@, Min(k, Len(@)) + 1, Len(@)),
                   !.listed = @ + (IF ListAssembled(c) THEN 1 ELSE 0)]
    ELSE n

\* n after tcpAccept returned descriptor s
Accepted(n, s) ==
    IF n.on /\ s = ClientSock THEN [n EXCEPT !.conn = "open"] ELSE n

\* n after an iteration of the server on descriptor sock that made the
\* sendPDU calls of out and left the descriptors of gone closed
Carried(n, sock, out, gone) ==
    IF n.on
    THEN [n EXCEPT !.up = IF sock = ClientSock /\ @ # <<>> THEN Tail(@) ELSE @,
                   !.down = @ \o Payloads(out, ClientSock),
                   !.conn = IF ClientSock \in gone THEN "closed" ELSE @]
    ELSE n

\* a cclient process started with argv[1] = arg, before main has run
(*   pc            where the process is: "main", "recvPDU" (waiting for the *)
(*                 registration response), "clientControlLoop" (in         *)
(*                 pollCall), "exited"                                      *)
(*   clientHandle  the global of that name                                  *)
(*   in            what the stream gave the recvPDU call of main            *)
(*   exit          the exit status, once exited                             *)
(* and, of the part of main or the iteration of clientControlLoop that ran  *)
(* last:                                                                    *)
(*   op            "main", "stdin" (processUserInput) or "socket"           *)
(*                 (processSocketData)                                      *)
(*   line          what fgets returned (NULL: end of file)                  *)
(*   stream        the events the socket had for its recvPDU calls          *)
(*   nread         the number of recvPDU calls made                         *)
(*   out           the sendPDU calls made, in order                         *)
(*   stdout        the messages printed, in order                           *)
(*   prompts       the number of prompts "$: " printed                      *)
(*   ub            it made an access outside a buffer                       *)
Started(arg) ==
    [pc |-> "main", arg |-> arg, clientHandle |-> <<>>, out |-> <<>>,
     in |-> PeerClosed, prompts |-> 0, exit |-> <<>>,
     op |-> "main", line |-> NULL, stream |-> <<>>, nread |-> 0,
     stdout |-> <<>>, ub |-> FALSE]

\* the process after exit(status)
Exited(c, status) == [c EXCEPT !.pc = "exited", !.exit = <<status % 256>>]

\* the command-line handles: a C string has no NUL byte
ClientArgs ==
    {hA, hB, hEmpty, hMax, hOver, <<97, 98>>, <<98, 97>>, <<99>>}

\* [flag=1][strlen(clientHandle) as uint8_t][handle], sent with sendPDU
sendRegistration(out, socketNum, clientHandle) ==
    LET hlen == Len(clientHandle) % 256
    IN  sendPDU(out, socketNum, <<1, hlen>> \o SubSeq(clientHandle, 1, hlen))

\* Variant: processRegistrationResponse that returns on flag 3 as on flag 2.
processRegistrationResponse_Flag3Returns(c, buffer, len) ==
    IF len < 1 THEN c
    ELSE IF buffer[1] = 2 \/ buffer[1] = 3 THEN c
    ELSE Exited(c, 1)

\* the process after processRegistrationResponse: unchanged when it returns
processRegistrationResponse(c, buffer, len) ==
    IF len < 1 THEN c
    ELSE IF buffer[1] = 2 THEN c
    ELSE IF buffer[1] = 3 THEN Exited(c, 1)
    ELSE Exited(c, 1)

\* main from its start to the recvPDU call that waits for the registration
\* response: checkArgs, the copy of the handle, tcpClientSetup (the
\* connection is established, descriptor 3) and sendRegistration
main ==
    /\ client.pc = "main"
    /\ client' =
        IF Len(client.arg) > MAX_HANDLE THEN Exited(client, 1)
        ELSE LET h == SubSeq(client.arg, 1, Min(Len(client.arg), MAX_HANDLE))
             IN  [client EXCEPT !.pc = "recvPDU",
                                !.clientHandle = h,
                                !.out = sendRegistration(client.out, 3, h)]
    /\ UNCHANGED <<table, open, pollSet, regd, running, last, sent, history>>
    /\ net' = Connected(net, client')

\* main from the return of recvPDU(socketNum, regResp, 100), given the
\* stream event w, to the call of clientControlLoop
mainResponse(w) ==
    /\ client.pc = "recvPDU"
    /\ LET r == recvPDU(w, 100)
           c == [client EXCEPT !.in = w]
       IN  client' =
            IF r.exit THEN Exited(c, -1)
            ELSE IF r.ret <= 0 THEN Exited(c, 1)
            ELSE LET d == processRegistrationResponse(c, r.buf, r.ret)
                 IN  IF d.pc = "exited" THEN d
                     ELSE [d EXCEPT !.pc = "clientControlLoop",
                                    !.prompts = d.prompts + 1]
    /\ UNCHANGED <<table, open, pollSet, regd, running, last, sent, history>>
    /\ net' = Read(net, client', 1)

\* what the stream may deliver to the client that waits for its response
ResponseWire ==
    {Deliver(PduBytes(p)) :
        p \in {<<2>>, <<3>>, <<2, 0>>, <<7, 1, 97>>, <<11, 0, 0, 0, 0>>,
               <<13>>, pFill(100), pFill(101)}}
        \cup {PeerClosed, RecvError, Reset, PartialHeader, EmptyPdu,
              PartialPayload, PayloadClosed, PayloadReset}

----------------------------------------------------------------------------
(* cclient.c: the command loop *)

\* one printf: the text and the values of its %s and %u arguments
Printed(text, a, b) == [text |-> text, a |-> a, b |-> b]

Say(c, text, a, b) == [c EXCEPT !.stdout = Append(@, Printed(text, a, b))]

\* printf("$: "); fflush(stdout);
Prompt(c) == [c EXCEPT !.prompts = @ + 1]

\* sendPDU(socketNum, buf, offset) of a payload built in uint8_t buf[MAXBUF]
SendBuilt(c, socketNum, payload) ==
    [c EXCEPT !.out = sendPDU(@, socketNum, payload),
              !.ub = @ \/ Len(payload) > MAXBUF]

\* what an iteration that wrote or read outside an array can end as: d is the
\* run that went on unharmed; the copy that overran is stopped by the
\* library's check before the handler sent or printed anything; the stack
\* check stops the process when the handler returns (SIGABRT, status 134)
Outcomes(d) ==
    UNION {IF e.ub
           THEN {e, Exited(e, 134),
                 Exited([e EXCEPT !.out = <<>>, !.stdout = <<>>,
                                  !.prompts = 0], 134)}
           ELSE {e} : e \in {d}}

\* strncpy(dest, token, MAX_HANDLE); dest[MAX_HANDLE] = 0
CopyHandle(token) == SubSeq(token, 1, Min(Len(token), MAX_HANDLE))

\* [1-byte strlen(h)][h]
LenHandle(h) ==
    LET n == Len(h) % 256 IN <<n>> \o SubSeq(h, 1, n)

\* the text of a command: strtok(NULL, "\n") from the saved pointer p, the
\* empty string when that gives NULL; copied with its terminating NUL
TextField_Unterminated(input, p) ==
    LET t == strtok(input, p, 10)
    IN  IF t.tok = NULL THEN <<0>> ELSE t.tok

TextField(input, p) ==
    LET t == strtok(input, p, 10)
    IN  (IF t.tok = NULL THEN <<>> ELSE t.tok) \o <<0>>

\* the branch cmd == 'M' of handleCommand
handleCommand_M(c, input, socketNum) ==
    LET t1 == strtok(input, 1, 32)
        t2 == strtok(input, t1.next, 32)
    IN
    IF t2.tok = NULL
    THEN Prompt(Say(c, "Invalid command format", <<>>, <<>>))
    ELSE
    LET destHandle == CopyHandle(t2.tok)
        payload == <<5>> \o LenHandle(c.clientHandle) \o <<1>>
                        \o LenHandle(destHandle) \o TextField(input, t2.next)
    IN  Prompt(SendBuilt(c, socketNum, payload))

\* the branch cmd == 'B' of handleCommand
handleCommand_B(c, input, socketNum) ==
    LET t1 == strtok(input, 1, 32)
        payload == <<4>> \o LenHandle(c.clientHandle)
                        \o TextField(input, t1.next)
    IN  Prompt(SendBuilt(c, socketNum, payload))

\* the destination tokens that the first loop of the branch cmd == 'C'
\* reads: [ok, handles, next], ok FALSE when a token is missing
RECURSIVE DestTokens(_, _, _, _)
DestTokens(input, p, n, acc) ==
    IF n = 0 THEN [ok |-> TRUE, handles |-> acc, next |-> p]
    ELSE LET t == strtok(input, p, 32) IN
         IF t.tok = NULL THEN [ok |-> FALSE, handles |-> acc, next |-> t.next]
         ELSE DestTokens(input, t.next, n - 1, Append(acc, CopyHandle(t.tok)))

\* Variant: the branch cmd == 'C' that accepts from one handle on
\* (numHandles < 1 for numHandles < 2).
handleCommand_C_FromOne(c, input, socketNum) ==
    LET t1 == strtok(input, 1, 32)
        t2 == strtok(input, t1.next, 32)
    IN
    IF t2.tok = NULL
    THEN Prompt(Say(c, "Invalid command format", <<>>, <<>>))
    ELSE
    LET numHandles == atoi(t2.tok) IN
    IF numHandles < 1 \/ numHandles > 9
    THEN Prompt(Say(c, "Invalid number of handles for multicast", <<>>, <<>>))
    ELSE
    LET d == DestTokens(input, t2.next, numHandles, <<>>) IN
    IF ~d.ok
    THEN Prompt(Say(c, "Invalid command format", <<>>, <<>>))
    ELSE
    LET payload == <<6>> \o LenHandle(c.clientHandle) \o <<numHandles % 256>>
                        \o DestBytes([i \in 1..numHandles |->
                                        Tail(LenHandle(d.handles[i]))])
                        \o TextField(input, d.next)
    IN  Prompt(SendBuilt(c, socketNum, payload))

\* the branch cmd == 'C' of handleCommand
handleCommand_C(c, input, socketNum) ==
    LET t1 == strtok(input, 1, 32)
        t2 == strtok(input, t1.next, 32)
    IN
    IF t2.tok = NULL
    THEN Prompt(Say(c, "Invalid command format", <<>>, <<>>))
    ELSE
    LET numHandles == atoi(t2.tok) IN
    IF numHandles < 2 \/ numHandles > 9
    THEN Prompt(Say(c, "Invalid number of handles for multicast", <<>>, <<>>))
    ELSE
    LET d == DestTokens(input, t2.next, numHandles, <<>>) IN
    IF ~d.ok
    THEN Prompt(Say(c, "Invalid command format", <<>>, <<>>))
    ELSE
    LET payload == <<6>> \o LenHandle(c.clientHandle) \o <<numHandles % 256>>
                        \o DestBytes([i \in 1..numHandles |->
                                        Tail(LenHandle(d.handles[i]))])
                        \o TextField(input, d.next)
    IN  Prompt(SendBuilt(c, socketNum, payload))

\* handleCommand(input, socketNum) run by process c: c afterwards
handleCommand(c, input, socketNum) ==
    IF CharAt(input, 1) # 37
    THEN Prompt(Say(c, "Invalid command", <<>>, <<>>))
    ELSE
    LET cmd == toupper(CharAt(input, 2)) IN
    CASE cmd = 77 -> handleCommand_M(c, input, socketNum)
      [] cmd = 66 -> handleCommand_B(c, input, socketNum)
      [] cmd = 67 -> handleCommand_C(c, input, socketNum)
      [] cmd = 76 -> Prompt(SendBuilt(c, socketNum, <<10>>))
      [] cmd = 72 -> Prompt(Say(c, "Available Commands", <<>>, <<>>))
      [] OTHER    -> Prompt(Say(c, "Invalid command", <<>>, <<>>))

\* process c as an iteration of clientControlLoop begins: nothing read, sent
\* or printed yet
Iteration(c, op) ==
    [c EXCEPT !.op = op, !.line = NULL, !.stream = <<>>, !.nread = 0,
              !.out = <<>>, !.stdout = <<>>, !.prompts = 0, !.ub = FALSE]

\* inputBuffer with a trailing newline removed
Chomp(b) ==
    IF CStr(b) # <<>> /\ CStr(b)[Len(CStr(b))] = 10
    THEN SubSeq(CStr(b), 1, Len(CStr(b)) - 1) ELSE CStr(b)

\* processUserInput when standard input is ready and fgets(inputBuffer,
\* MAXBUF, stdin) returns got: NULL at end of file, else at most MAXBUF - 1
\* characters
processUserInput(got) ==
    /\ client.pc = "clientControlLoop"
    /\ LET c == [Iteration(client, "stdin") EXCEPT !.line = got] IN
       client' \in Outcomes(
        IF got = NULL THEN Exited(c, 0)
        ELSE IF Chomp(got) = <<>> THEN Prompt(c)
        ELSE handleCommand(c, Chomp(got), 3))
    /\ UNCHANGED <<table, open, pollSet, regd, running, last, sent, history>>
    /\ net' = Written(net, client')

\* the event that the i-th recvPDU call of an iteration gets from the
\* stream ws: the server has closed after the last event of ws
FrameAt(ws, i) == IF i \in 1..Len(ws) THEN ws[i] ELSE PeerClosed

\* buf[off] of a buffer that holds len received bytes; outside them the
\* byte is not one the server sent (0 here, and the access is marked)
Rd(buf, off) == CharAt(buf, off + 1)

\* the C string that starts at buf + off: up to the first NUL received
StrAt(buf, off) == CStr(SubSeq(buf, off + 1, Len(buf)))

\* no NUL among the received bytes from buf + off on: the string runs on
\* past them
Unterminated(buf, off) == NulPos(SubSeq(buf, off + 1, Len(buf))) > Len(buf) - off

\* char h[MAX_HANDLE+1] = {0}; memcpy(h, buf + off, n); h[n] = 0: the
\* string then in h
HandleAt(buf, off, n) == CStr(SubSeq(buf, off + 1, Min(off + n, Len(buf))))

\* that copy reads past the received bytes or writes past h
BadCopy(buf, off, n) == n > MAX_HANDLE \/ off + n > Len(buf)

Mark(c, bad) == [c EXCEPT !.ub = @ \/ bad]

\* the offset after k length-prefixed handles that start at buf + off
RECURSIVE SkipHandles(_, _, _)
SkipHandles(buf, off, k) ==
    IF k = 0 THEN off
    ELSE SkipHandles(buf, off + 1 + Rd(buf, off), k - 1)

\* printf("\n%s: %s\n", sender, msg) for the text at buf + off
SayMessage(c, buf, shLen, off) ==
    Mark(Say(c, "%s: %s", HandleAt(buf, 2, shLen), StrAt(buf, off)),
         BadCopy(buf, 2, shLen) \/ Unterminated(buf, off))

\* ntohl of the four bytes at buf + 1
CountOf(buf) ==
    ((buf[2] * 256 + buf[3]) * 256 + buf[4]) * 256 + buf[5]

\* Variant: the loop of the flag-11 branch that does not count a PDU
\* without flag 12 (it reads on until it has count handles).
RECURSIVE ReadHandles_NotCountingOthers(_, _, _)
ReadHandles_NotCountingOthers(c, ws, count) ==
    IF count = 0 THEN c
    ELSE
    CHOOSE end \in
        {LET r == step[1]
             c1 == step[2]
         IN  IF r.exit THEN Exited(c1, -1)
             ELSE IF r.ret <= 0 THEN c1
             ELSE IF r.buf[1] # 12 THEN ReadHandles_NotCountingOthers(c1, ws, count)
             ELSE ReadHandles_NotCountingOthers(
                    Mark(Say(c1, "%s", HandleAt(r.buf, 2, Rd(r.buf, 1)), <<>>),
                         r.ret < 2 \/ BadCopy(r.buf, 2, Rd(r.buf, 1))),
                    ws, count - 1) :
            step \in {<<recvPDU(FrameAt(ws, c0.nread + 1), MAXBUF),
                        [c0 EXCEPT !.nread = @ + 1]>> : c0 \in {c}}} : TRUE

\* the for loop of the flag-11 branch with count iterations to go
\* (step: the result of the iteration's recvPDU call and the client after it)
RECURSIVE ReadHandles(_, _, _)
ReadHandles(c, ws, count) ==
    IF count = 0 THEN c
    ELSE
    CHOOSE end \in
        {LET r == step[1]
             c1 == step[2]
         IN  IF r.exit THEN Exited(c1, -1)
             ELSE IF r.ret <= 0 THEN c1
             ELSE IF r.buf[1] # 12 THEN ReadHandles(c1, ws, count - 1)
             ELSE ReadHandles(
                    Mark(Say(c1, "%s", HandleAt(r.buf, 2, Rd(r.buf, 1)), <<>>),
                         r.ret < 2 \/ BadCopy(r.buf, 2, Rd(r.buf, 1))),
                    ws, count - 1) :
            step \in {<<recvPDU(FrameAt(ws, c0.nread + 1), MAXBUF),
                        [c0 EXCEPT !.nread = @ + 1]>> : c0 \in {c}}} : TRUE

\* the flag-11 branch from its printf on: the loop, then the recvPDU into
\* the one-byte buffer term
ListAssembly(c, ws, count) ==
    CHOOSE end \in
        {IF d.pc = "exited" THEN d
         ELSE LET d1 == [d EXCEPT !.nread = @ + 1]
              IN  IF recvPDU(FrameAt(ws, d.nread + 1), 1).exit
                  THEN Exited(d1, -1) ELSE Prompt(d1) :
            d \in {ReadHandles(
                       Say(c, "Number of clients: %u", <<count>>, <<>>),
                       ws, count)}} : TRUE

\* Variant: processSocketData that goes on after recvPDU returned -1.
processSocketData_IgnoresError(ws) ==
    /\ client.pc = "clientControlLoop"
    /\ ws # <<>>
    /\ LET c0 == [Iteration(client, "socket") EXCEPT !.stream = ws, !.nread = 1]
           r == recvPDU(FrameAt(ws, 1), MAXBUF)
       IN  client' =
            IF r.exit THEN Exited(c0, -1)
            ELSE IF r.ret = 0
            THEN Exited(Say(c0, "Server Terminated", <<>>, <<>>), 0)
            ELSE Prompt(c0)
    /\ UNCHANGED <<table, open, pollSet, regd, running, last, sent, history>>
    /\ net' = Read(net, client', client'.nread)

\* processSocketData when the socket is ready and the stream has the
\* events ws for its recvPDU calls
processSocketData(ws) ==
    /\ client.pc = "clientControlLoop"
    /\ ws # <<>>
    /\ \E c0 \in {[Iteration(client, "socket")
                        EXCEPT !.stream = ws, !.nread = 1]},
          r \in {recvPDU(FrameAt(ws, 1), MAXBUF)} :
       LET buf == r.buf
           len == r.ret
       IN  client' \in Outcomes(
            IF r.exit THEN Exited(c0, -1)
            ELSE IF len <= 0
            THEN Exited(Say(c0, "Server Terminated", <<>>, <<>>), 0)
            ELSE IF buf[1] = 7 THEN
                IF len < 2 THEN c0
                ELSE Prompt(Mark(
                        Say(c0, "Client with handle %s does not exist.",
                            IF len >= 2 + buf[2]
                            THEN HandleAt(buf, 2, buf[2]) ELSE <<>>, <<>>),
                        buf[2] > MAX_HANDLE))
            ELSE IF buf[1] = 4 THEN
                Prompt(Mark(SayMessage(c0, buf, Rd(buf, 1), 2 + Rd(buf, 1)),
                            len < 2))
            ELSE IF buf[1] = 5 THEN
                LET shLen == Rd(buf, 1)
                    dhLen == Rd(buf, 2 + shLen + 1)
                IN  Prompt(Mark(SayMessage(c0, buf, shLen,
                                           2 + shLen + 2 + dhLen),
                                len < 2 + shLen + 2))
            ELSE IF buf[1] = 6 THEN
                LET shLen == Rd(buf, 1)
                    num == Rd(buf, 2 + shLen)
                    off == SkipHandles(buf, 2 + shLen + 1, num)
                IN  Prompt(Mark(SayMessage(c0, buf, shLen, off),
                                len < 2 + shLen + 1 \/ off > len))
            ELSE IF buf[1] = 11 THEN
                IF len < 5 THEN c0
                ELSE ListAssembly(c0, ws, CountOf(buf))
            ELSE Prompt(c0))
    /\ UNCHANGED <<table, open, pollSet, regd, running, last, sent, history>>
    /\ net' = Read(net, client', client'.nread)

\* tokens joined by single spaces
RECURSIVE Words(_)
Words(ws) ==
    IF ws = <<>> THEN <<>>
    ELSE IF Len(ws) = 1 THEN Head(ws)
    ELSE Head(ws) \o <<32>> \o Words(Tail(ws))

\* a line as fgets returns it: the characters and the newline
Line(ws) == Words(ws) \o <<10>>

\* "%" and a command letter
Cmd(letter) == <<37, letter>>

\* the decimal digit k as a token
Num(k) == <<48 + k>>

\* destination tokens a, b, a, b, ... (n of them)
AltDests(n) == [i \in 1..n |-> IF i % 2 = 1 THEN hA ELSE hB]

tHello == <<104, 105>>                          \* "hi"
tSpaced == <<32, 104, 105, 32, 32, 121, 111>>   \* " hi  yo"

\* the %M lines: with text, without, lower case, without destination, with
\* a longer first token, with a destination of more than 100 characters
MessageLines ==
    {Line(<<Cmd(77), hB, tHello>>), Line(<<Cmd(77), hA>>),
     Line(<<Cmd(109), hB, tSpaced>>), Line(<<Cmd(77)>>),
     Line(<<Cmd(77) \o <<120>>, hB, tHello>>),
     Line(<<Cmd(77), hOver, tHello>>),
     Words(<<Cmd(77), hB, tHello>>)}

BroadcastLines ==
    {Line(<<Cmd(66), tHello>>), Line(<<Cmd(66)>>), Line(<<Cmd(98), tSpaced>>),
     Line(<<Cmd(66) \o <<120, 121>>, tHello>>)}

\* the %C lines with a count k from 0 to 10 followed by k - 1, k and k + 1
\* tokens, and those without a count or with one that is no number
MulticastLines ==
    UNION {{Line(<<Cmd(67), Num(k)>> \o AltDests(n)) :
                n \in {k - 1, k, k + 1} \cap 0..10} : k \in 0..9}
      \cup {Line(<<Cmd(67), <<49, 48>>>> \o AltDests(n)) : n \in {10, 11}}
      \cup {Line(<<Cmd(99), Num(2), hB, hA, tSpaced>>),
            Line(<<Cmd(67) \o <<120>>, Num(2), hA, hB>>),
            Line(<<Cmd(67)>>), Line(<<Cmd(67), <<120>>, hA, hB>>),
            Line(<<Cmd(67), <<45, 50>>, hA, hB>>),
            Line(<<Cmd(67), <<50, 120>>, hA, hB>>)}

OtherLines ==
    {Line(<<Cmd(76)>>), Line(<<Cmd(108)>>), Line(<<Cmd(76), tHello>>),
     Line(<<Cmd(76) \o <<120>>>>),
     Line(<<Cmd(72)>>), Line(<<Cmd(104)>>), Line(<<Cmd(72), tHello>>),
     Line(<<Cmd(88)>>), Line(<<<<37>>>>), Line(<<tHello>>),
     Line(<<<<>>, Cmd(76)>>), Line(<<<<77>>, hB, tHello>>), Line(<<>>)}

\* what fgets may return to processUserInput
\* the longest lines fgets(inputBuffer, MAXBUF, stdin) returns: MAXBUF - 1
\* characters, the last one the newline or not
LongLines ==
    {Words(<<Cmd(66), pFill(MAXBUF - 5)>>) \o <<10>>,
     Words(<<Cmd(66), pFill(MAXBUF - 4)>>),
     Words(<<Cmd(77), hB, pFill(MAXBUF - 6)>>)}

Lines ==
    MessageLines \cup BroadcastLines \cup MulticastLines \cup OtherLines
        \cup LongLines \cup {NULL}

----------------------------------------------------------------------------
(* server.c: main loop *)

\* One iteration of the main loop: the ready descriptor, what the stream
\* delivered to recvPDU (in), what recvPDU returned (len) and left in buf,
\* whether the connection was registered when the iteration began, and the
\* descriptors on which send() fails during it (bad).
Step(op, sock, w, r, wasRegd) ==
    [op |-> op, sock |-> sock, in |-> w, len |-> r.ret, buf |-> r.buf,
     regd |-> wasRegd, bad |-> {}]

(* sendPDU passes the PDU to safeSend and tests its result for < 0; by the *)
(* comments at the call safeSend "either returns bytesSent or exits on     *)
(* error", and "if safeSend() doesn't exit on error, it might return <0".  *)
(* When send() fails the process has exited inside the call ("exit"), or   *)
(* sendPDU returns -1 to a caller that ignores it ("return").              *)
SendOutcomes == {"exit", "return"}

\* the first of the sendPDU calls whose send() fails; 0 when none does
FirstFailure(calls, bad) ==
    IF \E i \in 1..Len(calls) : calls[i][1] \in bad
    THEN CHOOSE i \in 1..Len(calls) :
            /\ calls[i][1] \in bad
            /\ \A j \in 1..(i - 1) : calls[j][1] \notin bad
    ELSE 0

\* blocked in pollCall(-1): no iteration in progress
Idle == Step("idle", 0, PeerClosed, [ret |-> 0, buf |-> <<>>], FALSE)

\* no iterations kept
NoHistory == [on |-> FALSE, log |-> <<>>]

\* h after an iteration on descriptor sock in which recvPDU gave r, the
\* table was t and the sendPDU calls were out
Logged(h, sock, r, t, out) ==
    IF h.on
    THEN [h EXCEPT !.log = Append(@, [sock |-> sock, len |-> r.ret,
                                      buf |-> r.buf, table |-> t,
                                      sent |-> out])]
    ELSE h

Init ==
    /\ table = <<>>
    /\ open = {}
    /\ pollSet = {}
    /\ regd = {}
    /\ running = TRUE
    /\ last = Idle
    /\ sent = <<>>
    /\ history = NoHistory
    /\ net = NoNet
    /\ client = Started(hA)

\* tcpAccept and addToPollSet: the new connection gets the lowest free descriptor
Accept(s) ==
    /\ running /\ last = Idle
    /\ s \in Socks \ open
    /\ \A x \in Socks \ open : s <= x
    /\ open' = open \cup {s}
    /\ pollSet' = pollSet \cup {s}
    /\ regd' = regd \ {s}
    /\ last' = Step("accept", s, PeerClosed, [ret |-> 0, buf |-> <<>>], FALSE)
    /\ sent' = <<>>
    /\ UNCHANGED <<table, running, client, history>>
    /\ net' = Accepted(net, s)

\* processClientSocket(ready) for the event w on the ready descriptor, when
\* send() fails on the descriptors of bad
processClientSocket(sock, w, bad) ==
    /\ running /\ last = Idle
    /\ sock \in pollSet
    /\ UNCHANGED client
    /\ LET r == recvPDU(w, MAXBUF) IN
       /\ last' = [Step(IF r.exit THEN "exit" ELSE "recv", sock, w, r,
                        sock \in regd) EXCEPT !.bad = bad]
       /\ IF r.exit THEN
              /\ running' = FALSE
              /\ sent' = <<>>
              /\ UNCHANGED <<table, open, pollSet, regd>>
          ELSE IF r.ret <= 0 THEN
              /\ table' = removeHandleBySocket(table, sock)
              /\ pollSet' = pollSet \ {sock}
              /\ open' = open \ {sock}
              /\ regd' = regd \ {sock}
              /\ sent' = <<>>
              /\ UNCHANGED running
          ELSE
              LET res == Dispatch(table, sock, r.buf, r.ret)
                  at == OverflowAt(r.buf, r.ret)
              IN
              /\ table' = res.table
              /\ open' = open \ res.closed
              /\ pollSet' = pollSet \ res.closed
              /\ regd' = (IF r.buf[1] = 1 /\ res.table # table
                          THEN regd \cup {sock} ELSE regd) \ res.closed
              /\ \E o \in (IF at < 0 THEN {"unharmed"} ELSE UBOutcomes) :
                     LET calls == IF o = "abort at copy"
                                  THEN SentBefore(table, sock, r.buf, r.ret, at)
                                  ELSE res.sent
                         k == FirstFailure(calls, bad)
                     IN  \E f \in (IF k = 0 THEN {"return"} ELSE SendOutcomes) :
                            /\ sent' = IF f = "exit" THEN SubSeq(calls, 1, k)
                                       ELSE calls
                            /\ running' = (o = "unharmed" /\ f = "return")
       /\ history' = Logged(history, sock, r, table, sent')
       /\ net' = Carried(net, sock, sent', (open \ open') \cup
                               (IF running' THEN {} ELSE open))

\* the iteration ends (its buffers go out of scope) and the loop is back in
\* pollCall(-1)
pollCall ==
    /\ running /\ last # Idle
    /\ last' = Idle
    /\ sent' = <<>>
    /\ UNCHANGED <<table, open, pollSet, regd, running, client, history, net>>

Next ==
    \/ \E s \in Socks : Accept(s)
    \/ \E s \in Socks, w \in Wire : processClientSocket(s, w, {})
    \/ pollCall

Spec == Init /\ [][Next]_vars

\* the same server, its clients sending registrations of every handle length
NextHandles ==
    \/ \E s \in Socks : Accept(s)
    \/ \E s \in Socks, w \in HandleWire : processClientSocket(s, w, {})
    \/ pollCall

SpecHandles == Init /\ [][NextHandles]_vars

\* the same server, its clients' streams those of PduWire
NextPdu ==
    \/ \E s \in Socks : Accept(s)
    \/ \E s \in Socks, w \in PduWire : processClientSocket(s, w, {})
    \/ pollCall

SpecPdu == Init /\ [][NextPdu]_vars

\* flag-4, flag-5 and flag-6 PDUs of every shape: well-formed, with a
\* destination count other than 1 in flag 5, cut short inside the sender,
\* the count or a destination, and with handle lengths 0, MAX_HANDLE and
\* MAX_HANDLE + 1
MessagePdus ==
    {RegistrationPdu(hA), RegistrationPdu(hB),
     BroadcastPdu(hA, tHi), BroadcastPdu(hMax, tHi),
     MessagePdu(5, hA, 1, <<hB>>, tHi),
     MessagePdu(6, hA, 2, <<hB, hA>>, tHi),
     MessagePdu(5, hA, 0, <<>>, tHi),
     MessagePdu(5, hA, 2, <<hB, hA>>, tHi),
     MessagePdu(5, hOver, 2, <<hB, hA>>, tHi),
     <<4>>, <<4, 3, 97>>, <<5, 1, 97>>, <<5, 1, 97, 1, 3, 98>>, <<6, 1, 97>>,
     <<6, 1, 97, 2, 1, 98>>, <<6, 1, 97, 2, 1, 98, 5, 97>>,
     BroadcastPdu(hEmpty, tHi), BroadcastPdu(hOver, tHi),
     MessagePdu(5, hA, 1, <<hEmpty>>, tHi),
     MessagePdu(5, hA, 1, <<hOver>>, tHi),
     MessagePdu(6, hA, 2, <<hB, hEmpty>>, tHi),
     MessagePdu(6, hA, 2, <<hB, hOver>>, tHi)}

MessageWire == {Frame(p) : p \in MessagePdus} \cup {PeerClosed}

\* the same server, its clients sending the PDUs of MessageWire
NextMessages ==
    \/ \E s \in Socks : Accept(s)
    \/ \E s \in Socks, w \in MessageWire : processClientSocket(s, w, {})
    \/ pollCall

SpecMessages == Init /\ [][NextMessages]_vars

\* the server of Spec when send() may fail on any of the descriptors
NextSend ==
    \/ \E s \in Socks : Accept(s)
    \/ \E s \in Socks, w \in Wire, bad \in SUBSET Socks :
            processClientSocket(s, w, bad)
    \/ pollCall

SpecSend == Init /\ [][NextSend]_vars

\* the handle of the client on descriptor s: "a" on 1, "b" on 2, ...
HandleOf(s) == <<96 + s>>

\* what the client on descriptor s sends: its registration and, with its
\* own handle as sender, a broadcast, a message to each other client and a
\* multicast to each other client and itself; the three differ in text or
\* flag, so a relayed PDU tells which one it was
RelayPdus(s) ==
    {RegistrationPdu(HandleOf(s)), BroadcastPdu(HandleOf(s), tHi)}
        \cup {MessagePdu(5, HandleOf(s), 1, <<HandleOf(d)>>, tEmpty) :
                d \in Socks \ {s}}
        \cup {MessagePdu(6, HandleOf(s), 2, <<HandleOf(d), HandleOf(s)>>, tHi) :
                d \in Socks \ {s}}

RelayWire(s) == {Frame(p) : p \in RelayPdus(s)} \cup {PeerClosed}

\* Variant: a stream that delivers what was written last first.
RECURSIVE WireTo_NewestFirst(_, _, _)
WireTo_NewestFirst(lg, b, k) ==
    IF lg = <<>> THEN <<>>
    ELSE
    LET calls == SelectSeq(Head(lg).sent, LAMBDA c : c[1] = b)
    IN  WireTo_NewestFirst(Tail(lg), b, k + 1)
            \o [i \in 1..Len(calls) |-> [data |-> calls[i][2], at |-> k]]

\* send() appends to the TCP stream of the connection: the PDUs written to
\* descriptor b in the iterations lg, tagged with the iteration (k is the
\* number of the first of lg)
RECURSIVE WireTo(_, _, _)
WireTo(lg, b, k) ==
    IF lg = <<>> THEN <<>>
    ELSE
    LET calls == SelectSeq(Head(lg).sent, LAMBDA c : c[1] = b)
    IN  [i \in 1..Len(calls) |-> [data |-> calls[i][2], at |-> k]]
            \o WireTo(Tail(lg), b, k + 1)

\* the server with its iterations kept, each client sending its own PDUs
InitRelay ==
    /\ table = <<>> /\ open = {} /\ pollSet = {} /\ regd = {}
    /\ running = TRUE /\ last = Idle /\ sent = <<>>
    /\ client = Started(hA)
    /\ history = [on |-> TRUE, log |-> <<>>]
    /\ net = NoNet

NextRelay ==
    \/ \E s \in Socks : Accept(s)
    \/ \E s \in Socks : \E w \in RelayWire(s) :
            Len(history.log) < MaxLog /\ processClientSocket(s, w, {})
    \/ pollCall

SpecRelay == InitRelay /\ [][NextRelay]_vars

(* The cclient process and the server joined by the connection net: what   *)
(* the client writes the server reads on ClientSock, what the server sends *)
(* on ClientSock the client reads, in order and without loss. Descriptor   *)
(* OtherSock is the connection of another client.                          *)

InitList ==
    /\ table = <<>> /\ open = {} /\ pollSet = {} /\ regd = {}
    /\ running = TRUE /\ last = Idle /\ sent = <<>>
    /\ history = NoHistory
    /\ client = Started(hA)
    /\ net = [NoNet EXCEPT !.on = TRUE]

\* what the client's socket has to read: the PDUs in flight and, the
\* connection closed, the end of the stream
Arrived ==
    [i \in 1..Len(net.down) |-> Frame(net.down[i])]
        \o (IF net.conn = "closed" THEN <<PeerClosed>> ELSE <<>>)

\* what descriptor ClientSock has to read: the oldest PDU in flight or, the
\* client process gone, the end of the stream
Pending ==
    IF net.up # <<>> THEN {Frame(Head(net.up))}
    ELSE IF client.pc = "exited" THEN {PeerClosed}
    ELSE {}

\* the lines the user types
ListLines == {Line(<<Cmd(76)>>), Line(<<Cmd(66), tHello>>), NULL}

\* the descriptor of the connection of another client
OtherSock == ClientSock + 1

\* what the other client sends
OthersWire ==
    {Frame(RegistrationPdu(hA)), Frame(RegistrationPdu(hB)),
     Frame(BroadcastPdu(hB, tHi)), PeerClosed, Oversize}

\* tcpAccept for the connection of the cclient process
ListAccept == net.conn = "pending" /\ Accept(ClientSock)

\* an iteration of the server's loop for descriptor ClientSock
ListServe == \E w \in Pending : processClientSocket(ClientSock, w, {})

\* the client's recvPDU in main returns
ListResponse == Arrived # <<>> /\ mainResponse(Arrived[1])

\* an iteration of clientControlLoop for the socket: it ends once every PDU
\* its recvPDU calls wait for has arrived
ListSocket ==
    \E ws \in {Arrived} : processSocketData(ws) /\ client'.nread <= Len(ws)

NextList ==
    \/ main
    \/ ListAccept
    \/ Accept(OtherSock)
    \/ ListServe
    \/ \E w \in OthersWire :
            Len(net.down) < MaxQueue /\ processClientSocket(OtherSock, w, {})
    \/ pollCall
    \/ ListResponse
    \/ \E got \in ListLines :
            /\ Len(net.up) < MaxQueue
            /\ got = Line(<<Cmd(76)>>) => net.asked < MaxAsk
            /\ processUserInput(got)
    \/ ListSocket

(* The server's loop serves every descriptor that is ready again and       *)
(* again, accepts a waiting connection and returns to pollCall; the        *)
(* client's loop handles its socket when PDUs wait on it.                  *)
SpecList ==
    /\ InitList /\ [][NextList]_vars
    /\ SF_vars(ListServe) /\ SF_vars(ListAccept) /\ WF_vars(pollCall)
    /\ WF_vars(ListResponse) /\ WF_vars(ListSocket)

\* what follows a flag-11 packet: handle packets and packets of another flag
ListItems ==
    {Frame(HandlePdu(hA)), Frame(HandlePdu(hB)), Frame(BroadcastPdu(hB, tHi))}

\* what follows those: the flag-13 packet, alone or with a message behind it
ListEnds == {<<Frame(<<13>>)>>, <<Frame(<<13>>), Frame(BroadcastPdu(hA, tHi))>>}

\* the list replies the server's processListRequest can produce, between
\* other traffic
ListStreams ==
    UNION {{<<Frame(CountPdu(n))>> \o b \o t :
                b \in [1..n -> ListItems], t \in ListEnds} : n \in 0..MaxCount}

\* list replies that fall short: closed or failed in the middle, a last
\* packet longer than one byte, a count of fewer than four bytes, a handle
\* packet without its handle
BrokenListStreams ==
    {<<Frame(CountPdu(2)), Frame(HandlePdu(hA))>>,
     <<Frame(CountPdu(2)), RecvError, Frame(HandlePdu(hA)), Frame(<<13>>)>>,
     <<Frame(CountPdu(1)), Frame(HandlePdu(hA)), Frame(HandlePdu(hB))>>,
     <<Frame(CountPdu(1)), Oversize>>,
     <<Frame(CountPdu(1)), Frame(<<12>>), Frame(<<13>>)>>,
     <<Frame(CountPdu(1)), Frame(HandlePdu(hOver)), Frame(<<13>>)>>,
     <<Frame(<<11, 0, 0>>)>>}

\* one message or error packet, well-formed or cut short
MessageStreams ==
    {<<Frame(p)>> :
        p \in {ErrorPdu(hB), ErrorPdu(hOver), <<7>>, <<7, 3, 97>>,
               BroadcastPdu(hA, tHi), BroadcastPdu(hOver, tHi), <<4>>,
               <<4, 1, 97, 104>>,
               MessagePdu(5, hA, 1, <<hB>>, tHi), <<5, 1, 97>>,
               MessagePdu(6, hA, 2, <<hB, hA>>, tHi), <<6, 1, 97, 2, 1, 98>>,
               <<9>>, <<2>>}}

\* the ways recvPDU returns no packet
ClosedStreams ==
    {<<w>> : w \in {PeerClosed, RecvError, Reset, PartialHeader, Oversize,
                    EmptyPdu, PartialPayload, PayloadClosed}}

\* what the server's stream holds when processSocketData runs
SocketStreams ==
    ListStreams \cup BrokenListStreams \cup MessageStreams \cup ClosedStreams

\* addHandle(handle, socket) called on the table; last records the call and
\* its return value (len)
AddHandle(handle, socket) ==
    /\ Len(table) < MaxEntries
    /\ table' = addHandle(table, handle, socket)
    /\ last' = Step("addHandle", socket, PeerClosed,
                    [ret |-> 0, buf |-> handle], FALSE)
    /\ UNCHANGED <<open, pollSet, regd, running, sent, client, history, net>>

\* removeHandleBySocket(socket) called on the table
RemoveHandleBySocket(socket) ==
    /\ table' = removeHandleBySocket(table, socket)
    /\ last' = Step("removeHandleBySocket", socket, PeerClosed,
                    [ret |-> removeHandleResult(table, socket), buf |-> <<>>],
                    FALSE)
    /\ UNCHANGED <<open, pollSet, regd, running, sent, client, history, net>>

\* handleTable.c on its own: any sequence of calls of its two updates
NextTable ==
    \/ \E h \in Names, s \in Socks : AddHandle(h, s)
    \/ \E s \in Socks : RemoveHandleBySocket(s)

SpecTable == Init /\ [][NextTable]_vars

\* one client process, started with any of the handles, and the stream
\* from its server
InitClient ==
    /\ table = <<>> /\ open = {} /\ pollSet = {} /\ regd = {}
    /\ running = TRUE /\ last = Idle /\ sent = <<>>
    /\ history = NoHistory
    /\ net = NoNet
    /\ client \in {Started(arg) : arg \in ClientArgs}

NextClient ==
    \/ main
    \/ \E w \in ResponseWire : mainResponse(w)
    \/ \E got \in Lines : processUserInput(got)
    \/ \E ws \in SocketStreams : processSocketData(ws)

SpecClient == InitClient /\ [][NextClient]_vars

----------------------------------------------------------------------------
(* Vocabulary of the properties *)

AllHandles == {hA, hB, hEmpty, hNul, hMax, hOver}

\* a handle of the data model: 1..100 bytes, no NUL among them
ValidHandle(h) == Len(h) \in 1..MAX_HANDLE /\ \A i \in 1..Len(h) : h[i] # 0

\* step l is processClientSocket on socket s having received payload p
Received(l, s, p) == l.op = "recv" /\ l.sock = s /\ l.len > 0 /\ l.buf = p

\* step l is processClientSocket on socket s with recvPDU returning <= 0
Dropped(l, s) == l.op = "recv" /\ l.sock = s /\ l.len <= 0

----------------------------------------------------------------------------
(* C1: an unregistered connection that sends flag 1 with a handle of valid *)
(* length held by no entry is sent exactly one flag-2 PDU, and afterwards  *)
(* both lookups give the new entry (handle, connection).                   *)
C1_RegistrationAccepted ==
    [][\A s \in Socks, h \in AllHandles :
        (/\ Received(last', s, RegistrationPdu(h))
         /\ s \notin regd
         /\ ValidHandle(h)
         /\ lookupSocketByHandle(table, h) = NOSOCK)
        => (/\ sent' = <<<<s, <<2>>>>>>
            /\ lookupSocketByHandle(table', h) = s
            /\ lookupHandleBySocket(table', s) = h
            /\ s \in regd' /\ s \in open')]_vars

\* a 100-byte handle was registered by a connection that had none
C1_Witness ==
    /\ Received(last, last.sock, RegistrationPdu(hMax))
    /\ ~last.regd
    /\ sent = <<<<last.sock, <<2>>>>>>
    /\ lookupSocketByHandle(table, hMax) = last.sock
    /\ lookupHandleBySocket(table, last.sock) = hMax

(* C2: an unregistered connection that sends flag 1 with a handle some     *)
(* entry holds is sent exactly one flag-3 PDU, is closed and leaves the    *)
(* poll set; the table is unchanged and the other connections stay as      *)
(* they were.                                                              *)
C2_DuplicateRejected ==
    [][\A s \in Socks, h \in AllHandles :
        (/\ Received(last', s, RegistrationPdu(h))
         /\ s \notin regd
         /\ lookupSocketByHandle(table, h) # NOSOCK)
        => (/\ sent' = <<<<s, <<3>>>>>>
            /\ open' = open \ {s}
            /\ pollSet' = pollSet \ {s}
            /\ table' = table
            /\ regd' = regd)]_vars

\* a second connection asked for the handle of a registered, open one
C2_Witness ==
    /\ Received(last, last.sock, RegistrationPdu(hA))
    /\ ~last.regd
    /\ sent = <<<<last.sock, <<3>>>>>>
    /\ last.sock \notin open
    /\ \E o \in regd \cap open :
        o # last.sock /\ lookupSocketByHandle(table, hA) = o
                      /\ lookupHandleBySocket(table, o) = hA

(* C3: registration accepts declared handle lengths 1 and 100 (flag 2,     *)
(* entry created) and rejects lengths 0 and 101 (flag 3, connection        *)
(* closed, no entry created).                                              *)
C3_LengthBoundaries ==
    [][\A s \in Socks, h \in AllHandles :
        (/\ Received(last', s, RegistrationPdu(h))
         /\ s \notin regd
         /\ lookupSocketByHandle(table, h) = NOSOCK)
        => (/\ Len(h) \in {1, MAX_HANDLE} =>
                /\ sent' = <<<<s, <<2>>>>>>
                /\ Len(table') = Len(table) + 1
            /\ Len(h) \in {0, MAX_HANDLE + 1} =>
                /\ sent' = <<<<s, <<3>>>>>>
                /\ s \notin open'
                /\ table' = table)]_vars

(* C4: in every reachable state no two entries of the handle table hold    *)
(* the same handle.                                                        *)
C4_HandlesUnique ==
    \A i, j \in 1..Len(table) : table[i].handle = table[j].handle => i = j

\* two handles are registered and a request for a held one was just refused
C4_Witness ==
    /\ Len(table) = 2
    /\ last.op = "recv" /\ last.len > 0 /\ last.buf[1] = 1
    /\ sent = <<<<last.sock, <<3>>>>>>

(* C5: in every reachable state a connection has at most one entry, and    *)
(* the handle of an open connection's entry never changes.                 *)
C5_OneHandlePerConnection ==
    [][/\ \A i, j \in 1..Len(table') :
            table'[i].socket = table'[j].socket => i = j
       /\ \A s \in regd \cap regd' :
            lookupHandleBySocket(table', s) = lookupHandleBySocket(table, s)]_vars

(* C6: in every reachable state every entry of the handle table refers to  *)
(* a connection that is open and in the poll set.                          *)
C6_EntriesAreOpen ==
    \A i \in 1..Len(table) :
        table[i].socket \in open /\ table[i].socket \in pollSet

(* C7: when recvPDU returns <= 0 on a connection the server removes its    *)
(* entry, takes it out of the poll set and closes it, and a unicast from   *)
(* another registered client to a handle the connection held then yields   *)
(* exactly one flag-7 PDU to that sender and no forward.                   *)
C7_DisconnectFreesHandle ==
    [][\A s \in Socks :
        Dropped(last', s)
        => (/\ s \notin open' /\ s \notin pollSet'
            /\ lookupHandleBySocket(table', s) = NULL
            /\ \A i \in 1..Len(table), o \in regd' :
                table[i].socket = s =>
                    LET m == MessagePdu(5, hA, 1, <<table[i].handle>>, tHi)
                    IN  processMessage(table', o, m, Len(m)).sent
                            = <<<<o, ErrorPdu(table[i].handle)>>>>)]_vars

(* C8: a well-formed flag-4 PDU from sender S with N entries in the table  *)
(* makes the server emit exactly N-1 PDUs, each the received payload, one  *)
(* to each registered connection other than S and none to S.               *)
C8_BroadcastFanOut ==
    [][\A s \in Socks, p \in BroadcastPdus :
        (Received(last', s, p) /\ s \in regd)
        => (/\ Len(sent') = Len(table) - 1
            /\ \A i \in 1..Len(sent') : sent'[i][2] = p /\ sent'[i][1] # s
            /\ \A c \in regd \ {s} :
                Cardinality({i \in 1..Len(sent') : sent'[i][1] = c}) = 1)]_vars

(* C9 as first stated: for a flag-5 PDU with one destination, a resolving  *)
(* destination gets exactly one copy of the payload and the sender gets    *)
(* nothing; a destination that does not resolve gives the sender exactly   *)
(* one flag-7 PDU with the destination handle and nobody else anything.    *)
C9_UnicastNothingToSender ==
    [][\A s \in Socks, d \in Names :
        LET p == MessagePdu(5, hA, 1, <<d>>, tHi)
            destSock == lookupSocketByHandle(table, d)
        IN  Received(last', s, p)
            => IF destSock # NOSOCK
               THEN /\ Len(sent') = 1
                    /\ sent'[1] = <<destSock, p>>
                    /\ \A i \in 1..Len(sent') : sent'[i][1] # s
               ELSE sent' = <<<<s, ErrorPdu(d)>>>>]_vars

(* C9, amended: for a flag-5 PDU with one destination, a resolving         *)
(* destination makes the server send exactly one PDU, the received         *)
(* payload, to the socket the table holds for that handle and nothing to   *)
(* any other socket, so the sender gets a PDU only when that socket is its *)
(* own; a destination that does not resolve gives the sender exactly one   *)
(* flag-7 PDU with the destination handle and nobody else anything.        *)
C9_UnicastRouting ==
    [][\A s \in Socks, d \in Names :
        LET p == MessagePdu(5, hA, 1, <<d>>, tHi)
            destSock == lookupSocketByHandle(table, d)
        IN  Received(last', s, p)
            => /\ table' = table
               /\ IF destSock # NOSOCK
                  THEN /\ sent' = <<<<destSock, p>>>>
                       /\ (\E i \in 1..Len(sent') : sent'[i][1] = s) <=> destSock = s
                  ELSE sent' = <<<<s, ErrorPdu(d)>>>>]_vars

\* a unicast was forwarded to another open, registered connection
C9_Witness ==
    /\ Received(last, last.sock, MessagePdu(5, hA, 1, <<hB>>, tHi))
    /\ \E o \in (regd \cap open) \ {last.sock} :
        /\ lookupSocketByHandle(table, hB) = o
        /\ sent = <<<<o, last.buf>>>>

\* the subsequence of ds whose handles resolve (want = TRUE) or fail
RECURSIVE Destinations(_, _, _)
Destinations(t, ds, want) ==
    IF ds = <<>> THEN <<>>
    ELSE (IF (lookupSocketByHandle(t, Head(ds)) # NOSOCK) = want
          THEN <<Head(ds)>> ELSE <<>>) \o Destinations(t, Tail(ds), want)

\* the subsequence of out that are copies of p (want = TRUE) or are not
RECURSIVE Copies(_, _, _)
Copies(out, p, want) ==
    IF out = <<>> THEN <<>>
    ELSE (IF (Head(out)[2] = p) = want THEN <<Head(out)>> ELSE <<>>)
            \o Copies(Tail(out), p, want)

(* C10: for a well-formed flag-6 PDU listing k destinations of which r     *)
(* resolve, the server sends exactly r copies of the payload, one per      *)
(* resolved destination, and exactly k-r flag-7 PDUs to the sender, one    *)
(* per failing destination and in the order of the failing destinations.   *)
C10_MulticastRouting ==
    [][\A s \in Socks, ds \in DestLists :
        LET p == MessagePdu(6, hA, Len(ds), ds, tHi)
            ok == Destinations(table, ds, TRUE)
            bad == Destinations(table, ds, FALSE)
            fwd == Copies(sent', p, TRUE)
            err == Copies(sent', p, FALSE)
        IN  Received(last', s, p)
            => /\ Len(fwd) = Len(ok)
               /\ Len(err) = Len(ds) - Len(ok)
               /\ fwd = [i \in 1..Len(ok) |->
                            <<lookupSocketByHandle(table, ok[i]), p>>]
               /\ err = [i \in 1..Len(bad) |-> <<s, ErrorPdu(bad[i])>>]]_vars

\* both destinations failed and the sender got flag 7 for b, then for a
C10_Witness ==
    /\ Received(last, last.sock, MessagePdu(6, hA, 2, <<hB, hA>>, tHi))
    /\ sent = <<<<last.sock, ErrorPdu(hB)>>, <<last.sock, ErrorPdu(hA)>>>>

----------------------------------------------------------------------------
(* C11: a flag-10 PDU from a registered connection C makes the server      *)
(* write to C, and to nobody else, exactly 1 + count + 1 PDUs: first one   *)
(* flag 11 whose count is the number of entries of the table, then count   *)
(* flag-12 PDUs, as many for each handle as entries hold it, then one      *)
(* flag 13.                                                                *)
C11_ListReply ==
    [][\A s \in Socks :
        (Received(last', s, <<10>>) /\ s \in regd)
        => LET n == Len(table) IN
           /\ Len(sent') = 1 + n + 1
           /\ \A i \in 1..Len(sent') : sent'[i][1] = s
           /\ sent'[1][2] = CountPdu(n)
           /\ \A i \in 2..(n + 1) : sent'[i][2][1] = 12
           /\ \A k \in 1..n :
                Cardinality({i \in 2..(n + 1) :
                                sent'[i][2] = HandlePdu(table[k].handle)})
                  = Cardinality({j \in 1..n :
                                table[j].handle = table[k].handle})
           /\ sent'[n + 2][2] = <<13>>
           /\ table' = table]_vars

\* a registered connection asked for the list while two handles were held
C11_Witness ==
    /\ Received(last, last.sock, <<10>>)
    /\ last.regd
    /\ Len(table) = 2
    /\ Len(sent) = 4
    /\ sent[1] = <<last.sock, CountPdu(2)>>
    /\ sent[4] = <<last.sock, <<13>>>>

\* the handles of the flag-12 PDUs, in the order sent, of the reply that a
\* list request from socket s gets while the table is t
ListedHandles(t, s) ==
    LET out == processListRequest(t, s, <<10>>, 1).sent
    IN  [i \in 1..(Len(out) - 2) |->
            SubSeq(out[i + 1][2], 3, Len(out[i + 1][2]))]

\* sequence q with its i-th element left out
Without(q, i) == SubSeq(q, 1, i - 1) \o SubSeq(q, i + 1, Len(q))

\* step l is a flag-1 PDU with handle h from socket s answered with flag 2
Registered(l, out, s, h) ==
    Received(l, s, RegistrationPdu(h)) /\ out = <<<<s, <<2>>>>>>

(* C12 as first stated: the flag-12 PDUs of a list reply carry the handles *)
(* in registration order, so a handle just registered is listed after      *)
(* every handle registered before it.                                      *)
C12_ListInRegistrationOrder ==
    [][\A s \in Socks, h \in Names :
        Registered(last', sent', s, h)
        => ListedHandles(table', s) = Append(ListedHandles(table, s), h)]_vars

(* C12, amended: the flag-12 PDUs of a list reply carry the handles in     *)
(* reverse registration order: a handle just registered is listed before   *)
(* every handle registered earlier, a step that registers nothing leaves   *)
(* the order of the handles that remain as it was, and the reply to a      *)
(* flag-10 PDU lists the handles in that order between its flag 11 and its *)
(* flag 13.                                                                *)
C12_ListNewestFirst ==
    [][\A s \in Socks :
        /\ \A h \in Names :
            Registered(last', sent', s, h)
            => ListedHandles(table', s) = <<h>> \o ListedHandles(table, s)
        /\ (~ \E o \in Socks, h \in AllHandles : Registered(last', sent', o, h))
            => \/ ListedHandles(table', s) = ListedHandles(table, s)
               \/ \E i \in 1..Len(table) :
                    ListedHandles(table', s) = Without(ListedHandles(table, s), i)
        /\ Received(last', s, <<10>>)
            => /\ Len(sent') = Len(table) + 2
               /\ [i \in 1..Len(table) |-> sent'[i + 1]]
                    = [i \in 1..Len(table) |->
                        <<s, HandlePdu(ListedHandles(table, s)[i])>>]]_vars

\* "b" was registered after "a" and the list reply names b, then a
C12_Witness ==
    /\ Received(last, last.sock, <<10>>)
    /\ table = <<[handle |-> hB, socket |-> 2], [handle |-> hA, socket |-> 1]>>
    /\ sent = <<<<last.sock, CountPdu(2)>>, <<last.sock, HandlePdu(hB)>>,
                <<last.sock, HandlePdu(hA)>>, <<last.sock, <<13>>>>>>

(* C13: a PDU with a flag other than 1 from a connection that has had no   *)
(* flag 1 of its own accepted is ignored: the server sends no PDU to any   *)
(* connection and the table is unchanged.                                  *)
C13_UnregisteredIgnored ==
    [][\A s \in Socks :
        (/\ last'.op = "recv" /\ last'.sock = s /\ last'.len > 0
         /\ last'.buf[1] # 1
         /\ s \notin regd)
        => (sent' = <<>> /\ table' = table)]_vars

(* C14: a flag-1 PDU from a connection that is already registered is       *)
(* ignored: the server sends no PDU, does not close the connection and     *)
(* leaves the table unchanged, whatever handle the PDU carries.            *)
C14_ReRegistrationIgnored ==
    [][\A s \in Socks :
        (/\ last'.op = "recv" /\ last'.sock = s /\ last'.len > 0
         /\ last'.buf[1] = 1
         /\ s \in regd)
        => (/\ sent' = <<>>
            /\ s \in open' /\ s \in pollSet'
            /\ table' = table)]_vars

\* the entries of t that belong to sockets other than s
EntriesOfOthers(t, s) == SelectSeq(t, LAMBDA e : e.socket # s)

(* C15: nothing a client sends makes the server process terminate: after   *)
(* any event on a connection the server is still running, every other      *)
(* connection is still open and in the poll set, and the entries of the    *)
(* other connections are as they were.                                     *)
C15_ServerSurvives ==
    [][/\ running'
       /\ \A s \in Socks :
            (last'.op # "idle" /\ last'.sock = s)
            => (/\ open \ {s} \subseteq open'
                /\ pollSet \ {s} \subseteq pollSet'
                /\ EntriesOfOthers(table', s) = EntriesOfOthers(table, s))]_vars

----------------------------------------------------------------------------
\* the payloads of the sendPDU calls of out on socket c, in order
RECURSIVE PayloadsTo(_, _)
PayloadsTo(out, c) ==
    IF out = <<>> THEN <<>>
    ELSE (IF Head(out)[1] = c THEN <<Head(out)[2]>> ELSE <<>>)
            \o PayloadsTo(Tail(out), c)

\* the bytes that sendPDU calls with payloads ps put on one stream
RECURSIVE StreamOf(_)
StreamOf(ps) ==
    IF ps = <<>> THEN <<>> ELSE PduBytes(Head(ps)) \o StreamOf(Tail(ps))

(* C16: sendPDU followed by recvPDU is a round trip.  For a payload p of   *)
(* 1..bufferSize bytes sendPDU builds one buffer, a two-byte big-endian    *)
(* header of value |p| + 2 followed by the bytes of p, and returns |p|;    *)
(* recvPDU on that stream returns |p| and leaves exactly p in the buffer;  *)
(* PDUs sent back to back on one connection are received as separate       *)
(* records in send order.                                                  *)
C16_RoundTrip ==
    [][/\ \A s \in Socks, p \in PduPayloads :
            (/\ last'.op \in {"recv", "exit"} /\ last'.sock = s
             /\ last'.in = Deliver(PduBytes(p)))
            => (/\ Len(PduBytes(p)) = Len(p) + 2
                /\ PduBytes(p)[1] * 256 + PduBytes(p)[2] = Len(p) + 2
                /\ SubSeq(PduBytes(p), 3, Len(p) + 2) = p
                /\ sendPDUReturn(Len(PduBytes(p))) = Len(p)
                /\ last'.op = "recv"
                /\ last'.len = Len(p)
                /\ last'.buf = p)
       /\ \A c \in Socks :
            LET ps == PayloadsTo(sent', c) IN
            RecvAll(StreamOf(ps), MAXBUF)
                = [i \in 1..Len(ps) |->
                    [ret |-> Len(ps[i]), buf |-> ps[i], exit |-> FALSE]]]_vars

\* a list request made the round trip and its four reply PDUs, sent back to
\* back, are read from the stream as four records
C16_Witness ==
    /\ last.op = "recv"
    /\ last.in = Deliver(PduBytes(<<10>>))
    /\ last.buf = <<10>>
    /\ Len(PayloadsTo(sent, last.sock)) = 4
    /\ Len(RecvAll(StreamOf(PayloadsTo(sent, last.sock)), MAXBUF)) = 4

\* the total length and the payload length that the header of frame w declares
TotalLen(w) == w.hdr[1] * 256 + w.hdr[2]
PayloadLen(w) == TotalLen(w) - 2

\* step l is one recvPDU call of the server on the stream event l.in
RecvCall(l) == l.op \in {"recv", "exit"}

(* C17: when the header declares a payload longer than the caller's buffer *)
(* recvPDU returns a failure to its caller, the process keeps running and  *)
(* nothing is written to the buffer.                                       *)
C17_OversizeReturned ==
    [][(RecvCall(last') /\ last'.in.hret = 2 /\ PayloadLen(last'.in) > MAXBUF)
        => (/\ last'.op = "recv"
            /\ last'.len < 0
            /\ last'.buf = <<>>
            /\ running')]_vars

(* C18: recvPDU returns 0 (peer closed) when the header read delivers no   *)
(* byte and when a read fails with a connection reset, and -1 (error) when *)
(* the header read delivers one of the two bytes and when the payload read *)
(* delivers some but not all of the declared payload bytes.                *)
C18_RecvClassification ==
    [][RecvCall(last') =>
        LET w == last'.in IN
        /\ w.hret = 0 => (last'.op = "recv" /\ last'.len = 0)
        /\ (w.hret < 0 /\ w.reset) => (last'.op = "recv" /\ last'.len = 0)
        /\ (w.hret = 2 /\ PayloadLen(w) \in 1..MAXBUF /\ w.pret < 0 /\ w.reset)
            => (last'.op = "recv" /\ last'.len = 0)
        /\ w.hret = 1 => (last'.op = "recv" /\ last'.len = -1)
        /\ (w.hret = 2 /\ PayloadLen(w) \in 1..MAXBUF
                /\ w.pret > 0 /\ w.pret < PayloadLen(w))
            => (last'.op = "recv" /\ last'.len = -1)]_vars

\* the header read failed with a connection reset and recvPDU returned 0
C18_Witness ==
    /\ last.op = "recv"
    /\ last.in = Reset
    /\ last.len = 0
    /\ last.sock \notin open

(* C19: a header that declares total length 2 (no payload) makes recvPDU   *)
(* return the error result -1, not the peer-closed result 0, and so does a *)
(* header that declares a total length below 2.                            *)
C19_EmptyPduIsError ==
    [][(RecvCall(last') /\ last'.in.hret = 2 /\ TotalLen(last'.in) <= 2)
        => (last'.op = "recv" /\ last'.len = -1)]_vars

(* C20: the first PDU the client sends after connecting is a flag-1 PDU    *)
(* that carries its handle, and it sends no other PDU before a response    *)
(* arrives; on a flag-2 response it prints the prompt and enters the       *)
(* command loop, on a flag-3 response it exits with status 1, and when the *)
(* peer closes before any response it exits with status 1.                 *)
C20_ClientHandshake ==
    [][/\ (client.pc = "main" /\ client'.pc # "exited")
            => (/\ client'.pc = "recvPDU"
                /\ Len(client'.out) = 1
                /\ client'.out[1][2] = RegistrationPdu(client.arg))
       /\ client.pc = "recvPDU"
            => (/\ Len(client.out) = 1
                /\ client'.out = client.out
                /\ client'.in = Deliver(PduBytes(<<2>>))
                    => (/\ client'.pc = "clientControlLoop"
                        /\ client'.prompts = 1
                        /\ client'.exit = <<>>)
                /\ client'.in = Deliver(PduBytes(<<3>>))
                    => (client'.pc = "exited" /\ client'.exit = <<1>>)
                /\ client'.in.hret = 0
                    => (client'.pc = "exited" /\ client'.exit = <<1>>))]_vars

\* the client registered a 100-byte handle, was answered with flag 2 and is
\* in its command loop
C20_Witness ==
    /\ client.pc = "clientControlLoop"
    /\ client.arg = hMax
    /\ client.out = <<<<3, RegistrationPdu(hMax)>>>>
    /\ client.in = Deliver(PduBytes(<<2>>))
    /\ client.prompts = 1

----------------------------------------------------------------------------
\* the client ran processUserInput on the line of words ws
ReadLine(c, ws) == c.op = "stdin" /\ c.line = Line(ws)

\* the line "%C k" followed by n destination tokens, for each k and n
CountLines ==
    [k \in 0..10 |-> [n \in 0..11 |->
        Line(<<Cmd(67), IF k < 10 THEN Num(k) ELSE <<49, 48>>>>
                \o AltDests(n))]]

(* C21: the client accepts a %C command with count k exactly when          *)
(* 2 <= k <= 9 and k destination tokens follow, and then sends one flag-6  *)
(* PDU whose n field is k and whose destinations are the k tokens in       *)
(* order; for k = 1, k > 9 or fewer than k destination tokens it sends no  *)
(* PDU.                                                                    *)
C21_MulticastCount ==
    [][(client.pc = "clientControlLoop" /\ client'.op = "stdin")
        => \A k \in 0..10, n \in 0..11 :
            client'.line = CountLines[k][n]
            => IF k \in 2..9 /\ n >= k
               THEN client'.out =
                        <<<<3, MessagePdu(6, client.clientHandle, k,
                                AltDests(k),
                                Words(SubSeq(AltDests(n), k + 1, n))
                                    \o <<0>>)>>>>
               ELSE client'.out = <<>>]_vars

\* "%C 9" with nine destination tokens was sent as one flag-6 PDU with n = 9
C21_Witness ==
    /\ ReadLine(client, <<Cmd(67), Num(9)>> \o AltDests(9))
    /\ client.clientHandle = hA
    /\ client.out = <<<<3, MessagePdu(6, hA, 9, AltDests(9), <<0>>)>>>>

\* the tokens of a line: its maximal runs of characters other than a space
RECURSIVE Tokens(_, _)
Tokens(input, p) ==
    LET t == strtok(input, p, 32) IN
    IF t.tok = NULL THEN <<>> ELSE <<t.tok>> \o Tokens(input, t.next)

\* token w is "%" followed by the letter lt in either case
IsCmd(w, lt) == Len(w) = 2 /\ w[1] = 37 /\ toupper(w[2]) = lt

\* the flag of the PDU that the line of tokens ws asks for: 0 when it is not
\* a well-formed command, -1 for %H
FlagOf(ws) ==
    IF IsCmd(ws[1], 77) THEN (IF Len(ws) >= 2 THEN 5 ELSE 0)
    ELSE IF IsCmd(ws[1], 66) THEN 4
    ELSE IF IsCmd(ws[1], 67) THEN
        (IF Len(ws) >= 2 /\ atoi(ws[2]) \in 2..9
                /\ Len(ws) >= 2 + atoi(ws[2]) THEN 6 ELSE 0)
    ELSE IF IsCmd(ws[1], 76) THEN 10
    ELSE IF IsCmd(ws[1], 72) THEN -1
    ELSE 0

(* C22: a line that is not a well-formed command (its first token is not   *)
(* exactly %M, %B, %C, %L or %H in either case, or a required token is     *)
(* missing) makes the client print "Invalid command" and send no PDU; %H   *)
(* sends no PDU; a well-formed %M, %B, %C and %L line sends exactly one    *)
(* PDU, with flag 5, 4, 6 and 10.                                          *)
C22_CommandLines ==
    (/\ client.op = "stdin" /\ client.line # NULL
     /\ Tokens(Chomp(client.line), 1) # <<>>)
    => LET f == FlagOf(Tokens(Chomp(client.line), 1)) IN
       /\ f = 0 =>
            /\ client.out = <<>>
            /\ \E i \in 1..Len(client.stdout) :
                    client.stdout[i].text = "Invalid command"
       /\ f = -1 => client.out = <<>>
       /\ f > 0 =>
            /\ Len(client.out) = 1
            /\ client.out[1][2][1] = f

----------------------------------------------------------------------------
\* frame w carries a whole packet of at most MAXBUF bytes
WholePdu(w) == w.hret = 2 /\ w.pret = Len(w.data) /\ w = Frame(w.data)
                /\ Len(w.data) \in 1..MAXBUF

\* a flag-12 packet is the flag, a length and that many bytes of a handle
WellFormedItem(p) == p[1] = 12 => (Len(p) >= 2 /\ p = HandlePdu(SubSeq(p, 3, Len(p)))
                                    /\ ValidHandle(SubSeq(p, 3, Len(p))))

\* stream ws begins with a flag-11 packet with count c, c whole packets and
\* the flag-13 packet
ListReply(ws, c) ==
    /\ Len(ws) >= c + 2
    /\ ws[1] = Frame(CountPdu(c))
    /\ \A i \in 2..(c + 1) : WholePdu(ws[i]) /\ WellFormedItem(ws[i].data)
    /\ ws[c + 2] = Frame(<<13>>)

\* the lines printed for the handles of the flag-12 packets among frames
RECURSIVE HandleLines(_)
HandleLines(frames) ==
    IF frames = <<>> THEN <<>>
    ELSE (IF Head(frames).data[1] = 12
          THEN <<Printed("%s", SubSeq(Head(frames).data, 3,
                                      Len(Head(frames).data)), <<>>)>>
          ELSE <<>>) \o HandleLines(Tail(frames))

(* C23: when processSocketData receives a flag-11 packet with count c and  *)
(* the stream then holds c whole packets and the flag-13 packet, it calls  *)
(* recvPDU exactly c + 1 more times, prints the count and then the handle  *)
(* of each flag-12 packet in arrival order (packets of another flag print  *)
(* nothing), prints the prompt and is back in clientControlLoop.           *)
C23_ListAssembly ==
    \A c \in 0..(MaxCount + 1) :
        (client.op = "socket" /\ ListReply(client.stream, c))
        => /\ client.nread = 1 + c + 1
           /\ client.stdout =
                <<Printed("Number of clients: %u", <<c>>, <<>>)>>
                    \o HandleLines(SubSeq(client.stream, 2, c + 1))
           /\ client.prompts = 1
           /\ client.pc = "clientControlLoop"
           /\ ~client.ub

\* count 2, then a flag-4 packet and the handle packet of "b", the flag-13
\* packet and a message behind it: three more recvPDU calls, "b" printed
C23_Witness ==
    /\ client.op = "socket"
    /\ client.stream =
        <<Frame(CountPdu(2)), Frame(BroadcastPdu(hB, tHi)),
          Frame(HandlePdu(hB)), Frame(<<13>>), Frame(BroadcastPdu(hA, tHi))>>
    /\ client.nread = 4
    /\ client.stdout = <<Printed("Number of clients: %u", <<2>>, <<>>),
                         Printed("%s", hB, <<>>)>>
    /\ client.pc = "clientControlLoop"

\* recvPDU returns 0 or -1 for event w: the stream closed or a recv()
\* failed, before the header or in the middle of the packet
ClosedOrFailed(w) ==
    w \in {PeerClosed, RecvError, Reset, PartialHeader, PartialPayload,
           PayloadClosed}

(* C24: when the first recvPDU of processSocketData finds the stream       *)
(* closed or a recv() failed, the client prints "Server Terminated" and    *)
(* exits with status 0; when fgets finds end of file on standard input the *)
(* client exits with status 0.                                             *)
C24_ReadyExits ==
    /\ (client.op = "socket" /\ ClosedOrFailed(client.stream[1]))
        => /\ client.pc = "exited" /\ client.exit = <<0>>
           /\ client.stdout = <<Printed("Server Terminated", <<>>, <<>>)>>
    /\ (client.op = "stdin" /\ client.line = NULL)
        => client.pc = "exited" /\ client.exit = <<0>>

\* a recv() on the socket failed: "Server Terminated" and exit status 0
C24_Witness ==
    /\ client.op = "socket" /\ client.stream = <<RecvError>>
    /\ client.pc = "exited" /\ client.exit = <<0>>
    /\ client.stdout = <<Printed("Server Terminated", <<>>, <<>>)>>

----------------------------------------------------------------------------
(* C25: addHandle called with a handle that an entry of the table already  *)
(* holds returns a value other than 0 (it reports the duplicate) and       *)
(* leaves the table as it was.                                             *)
C25_DuplicateAddRefused ==
    [][(last'.op = "addHandle"
            /\ lookupSocketByHandle(table, last'.buf) # NOSOCK)
        => (last'.len # 0 /\ table' = table)]_vars

\* the (handle, socket) pairs that a lookup returns
PairsByHandle(t) ==
    {<<h, lookupSocketByHandle(t, h)>> :
        h \in {g \in Names : lookupSocketByHandle(t, g) # NOSOCK}}
PairsBySocket(t) ==
    {<<lookupHandleBySocket(t, c), c>> :
        c \in {d \in Socks : lookupHandleBySocket(t, d) # NULL}}

(* C26: after any sequence of addHandle and removeHandleBySocket calls,    *)
(* lookupSocketByHandle(h) returns c if and only if lookupHandleBySocket(c)*)
(* returns h, and getHandleCount is the number of (handle, socket) pairs   *)
(* that the lookups return.                                                *)
C26_LookupsAgree ==
    /\ \A h \in Names, c \in Socks :
            lookupSocketByHandle(table, h) = c
                <=> lookupHandleBySocket(table, c) = h
    /\ getHandleCount(table)
            = Cardinality(PairsByHandle(table) \cup PairsBySocket(table))

----------------------------------------------------------------------------
\* buf is a flag-5 PDU whose sender handle and destination count are there
\* and whose count is not 1
CountNotOne(buf) ==
    /\ buf[1] = 5 /\ Len(buf) >= 2
    /\ Len(buf) >= 2 + buf[2] + 1
    /\ buf[2 + buf[2] + 1] # 1

(* C28: when the server receives a flag-5 PDU whose destination count is   *)
(* not 1 it makes no sendPDU call (no forward, no flag 7), and the handle  *)
(* table, the open connections, the poll set and the server process are as *)
(* before.                                                                 *)
C28_CountNotOneIgnored ==
    [][(last'.op = "recv" /\ last'.len > 0 /\ CountNotOne(last'.buf))
        => /\ sent' = <<>>
           /\ table' = table /\ open' = open /\ pollSet' = pollSet
           /\ regd' = regd /\ running']_vars

(* The shape of a flag-4, flag-5 or flag-6 payload read from its start:    *)
(*   lens  the handle lengths it declares, sender first, as far as they    *)
(*         can be read                                                     *)
(*   ok    the sender handle, the destination count of flag 5 and 6 and    *)
(*         every destination handle lie within the payload                 *)
RECURSIVE DestShape(_, _, _, _)
DestShape(buf, off, k, lens) ==
    IF k = 0 THEN [lens |-> lens, ok |-> TRUE]
    ELSE IF off + 1 > Len(buf) THEN [lens |-> lens, ok |-> FALSE]
    ELSE
    LET d == buf[off + 1] IN
    IF off + 1 + d > Len(buf) THEN [lens |-> Append(lens, d), ok |-> FALSE]
    ELSE DestShape(buf, off + 1 + d, k - 1, Append(lens, d))

Shape(buf) ==
    IF Len(buf) < 2 THEN [lens |-> <<>>, ok |-> FALSE]
    ELSE IF 2 + buf[2] > Len(buf) THEN [lens |-> <<buf[2]>>, ok |-> FALSE]
    ELSE IF buf[1] = 4 THEN [lens |-> <<buf[2]>>, ok |-> TRUE]
    ELSE IF 2 + buf[2] + 1 > Len(buf) THEN [lens |-> <<buf[2]>>, ok |-> FALSE]
    ELSE DestShape(buf, 2 + buf[2] + 1, buf[2 + buf[2] + 1], <<buf[2]>>)

\* the iteration in progress received a flag-4, flag-5 or flag-6 PDU from a
\* registered connection
MessageReceived ==
    /\ last.op = "recv" /\ last.len > 0 /\ last.regd
    /\ last.buf[1] \in {4, 5, 6}

(* C29: when the server receives a flag-4, flag-5 or flag-6 PDU in which a *)
(* declared handle length or the destination count runs past the end of    *)
(* the payload, it makes no sendPDU call: no forward and no flag 7.        *)
C29_UnparsableRejected ==
    (MessageReceived /\ ~Shape(last.buf).ok) => sent = <<>>

(* C30: when the server receives a flag-4, flag-5 or flag-6 PDU that       *)
(* declares a sender or destination handle length of 0 or above 100, it    *)
(* copies no more than 100 bytes into a handle buffer and makes no sendPDU *)
(* call: no forward and no flag 7.                                         *)
C30_HandleLengthsEnforced ==
    (/\ MessageReceived
     /\ \E i \in 1..Len(Shape(last.buf).lens) :
            Shape(last.buf).lens[i] \notin 1..MAX_HANDLE)
    => /\ OverflowAt(last.buf, last.len) < 0
       /\ sent = <<>>

----------------------------------------------------------------------------
\* the destination handles of a well-formed flag-5 or flag-6 payload, from
\* offset off with k to go
RECURSIVE DestsOf(_, _, _)
DestsOf(buf, off, k) ==
    IF k = 0 \/ off + 1 > Len(buf) THEN {}
    ELSE {Bytes(buf, off + 1, buf[off + 1])}
            \cup DestsOf(buf, off + 1 + buf[off + 1], k - 1)

\* iteration e received a message that is addressed to the client on
\* descriptor b, registered at the time: a broadcast from another
\* connection, or a flag-5 or flag-6 PDU that names the handle under which
\* b is in the table
AddressedTo(e, b) ==
    /\ e.len > 0 /\ e.buf[1] \in {4, 5, 6} /\ e.sock # b
    /\ lookupHandleBySocket(e.table, e.sock) # NULL
    /\ lookupHandleBySocket(e.table, b) # NULL
    /\ lookupSocketByHandle(e.table, lookupHandleBySocket(e.table, b)) = b
    /\ e.buf[1] \in {5, 6} =>
            lookupHandleBySocket(e.table, b)
                \in DestsOf(e.buf, 2 + e.buf[2] + 1, e.buf[2 + e.buf[2] + 1])

----------------------------------------------------------------------------
\* the positions, from the head, of the entries of t with socket s
EntriesOf(t, s) == {i \in 1..Len(t) : t[i].socket = s}

(* C39: removeHandleBySocket(s) returns -1 and leaves the table as it was  *)
(* when no entry has socket s; otherwise it returns 0 and the table is the *)
(* old one without the entry of s nearest the head (the one added last),   *)
(* every other entry in its place and order, so getHandleCount is one      *)
(* less.                                                                   *)
C39_RemoveOne ==
    [][last'.op = "removeHandleBySocket"
        => LET at == EntriesOf(table, last'.sock) IN
           IF at = {}
           THEN last'.len = -1 /\ table' = table
           ELSE LET i == CHOOSE k \in at : \A j \in at : k <= j IN
                /\ last'.len = 0
                /\ table' = SubSeq(table, 1, i - 1)
                                \o SubSeq(table, i + 1, Len(table))
                /\ getHandleCount(table') = getHandleCount(table) - 1]_vars

\* socket 1 had two entries: one call removed the newer, the older remains
C39_Witness ==
    /\ last.op = "removeHandleBySocket" /\ last.sock = 1 /\ last.len = 0
    /\ table = <<[handle |-> hA, socket |-> 2], [handle |-> hA, socket |-> 1]>>

----------------------------------------------------------------------------
\* no connection that registered is left for handle h: every entry that
\* holds h is of a descriptor whose present connection has not registered
OwnerGone(h) ==
    \A i \in 1..Len(table) : table[i].handle = h => table[i].socket \notin regd

(* C38: once the connection that registered handle h is closed and the     *)
(* server has processed the close, a flag-1 PDU for h from a connection    *)
(* that has not registered is answered with flag 2, and afterwards every   *)
(* entry that holds h is of that connection.                               *)
C38_HandleAvailableAgain ==
    [][\A h \in Names :
        (/\ last'.op = "recv" /\ last'.len > 0
         /\ last'.buf = RegistrationPdu(h)
         /\ ~last'.regd
         /\ OwnerGone(h))
        => /\ sent' = <<<<last'.sock, <<2>>>>>>
           /\ lookupSocketByHandle(table', h) = last'.sock
           /\ \A i \in 1..Len(table') :
                table'[i].handle = h => table'[i].socket = last'.sock]_vars

----------------------------------------------------------------------------
(* C36: when the server forwards a flag-4, flag-5 or flag-6 PDU received   *)
(* from a registered connection, the sender handle in the PDU is a handle  *)
(* that the table holds for that connection.                               *)
C36_SenderIsRegisteredHandle ==
    (/\ MessageReceived
     /\ \E k \in 1..Len(sent) : sent[k][2] = last.buf)
    => \E i \in 1..Len(table) :
            /\ table[i].socket = last.sock
            /\ table[i].handle = Bytes(last.buf, 2, last.buf[2])

----------------------------------------------------------------------------
(* C32: an open connection from which no flag-1 PDU has been accepted has  *)
(* no entry in the table: lookupHandleBySocket finds nothing for its       *)
(* descriptor, also when the descriptor was that of a connection closed    *)
(* earlier.                                                                *)
C32_NewConnectionUnregistered ==
    \A s \in open : s \notin regd => lookupHandleBySocket(table, s) = NULL

----------------------------------------------------------------------------
(* C33: when send() fails for one of the sendPDU calls of a broadcast, a   *)
(* multicast or a list reply, the server still makes every sendPDU call of *)
(* the operation, and the connection the PDU came from stays open, in the  *)
(* poll set and in the table, the server running.                          *)
C33_SendFailureIgnored ==
    [][(/\ last'.op = "recv" /\ last'.len > 0
        /\ last'.buf[1] \in {4, 6, 10}
        /\ FirstFailure(Dispatch(table, last'.sock, last'.buf, last'.len).sent,
                        last'.bad) > 0)
        => /\ sent' = Dispatch(table, last'.sock, last'.buf, last'.len).sent
           /\ running'
           /\ table' = table /\ open' = open /\ pollSet' = pollSet]_vars

\* ---- C34: the text field of the PDUs the client builds ----

\* the line after its first r space-separated tokens and the one space that
\* ends the last of them
RECURSIVE Remainder(_, _)
Remainder(line, r) ==
    IF r = 0 THEN line
    ELSE LET from == {i \in 1..Len(line) : line[i] # 32}
             b == IF from = {} THEN Len(line) + 1
                  ELSE CHOOSE i \in from : \A j \in from : i <= j
             to == {i \in b..Len(line) : line[i] = 32}
             e == IF to = {} THEN Len(line) + 1
                  ELSE CHOOSE i \in to : \A j \in to : i <= j
         IN  Remainder(SubSeq(line, Min(e, Len(line)) + 1, Len(line)), r - 1)

\* the tokens a flag-4, flag-5 or flag-6 PDU needs before its text: the
\* command, and for %M the destination, for %C the count and n destinations
RequiredTokens(p) ==
    IF p[1] = 4 THEN 1
    ELSE IF p[1] = 5 THEN 2
    ELSE 2 + p[2 + p[2] + 1]

\* the bytes of payload p after its handles
TextOf(p) ==
    LET shLen == p[2]
        off == IF p[1] = 4 THEN 2 + shLen
               ELSE SkipHandles(p, 2 + shLen + 1, p[2 + shLen + 1])
    IN  SubSeq(p, off + 1, Len(p))

(* C34: in every flag-4, flag-5 and flag-6 PDU the client builds from an   *)
(* input line, the bytes after the handles are the remainder of the line   *)
(* after the last required token and the space ending it, followed by one  *)
(* NUL and nothing else: a single NUL when the line has no text; the NUL   *)
(* is the last byte of the payload and the only NUL of the field.          *)
C34_TextFieldTerminated ==
    (/\ client.op = "stdin" /\ client.line # NULL
     /\ Len(client.out) = 1 /\ client.out[1][2][1] \in {4, 5, 6})
    => LET p == client.out[1][2]
           text == Remainder(Chomp(client.line), RequiredTokens(p))
       IN  /\ TextOf(p) = text \o <<0>>
           /\ Len(TextOf(p)) = Len(text) + 1
           /\ p[Len(p)] = 0
           /\ \A i \in 1..Len(text) : text[i] # 0

\* "%b  hi  yo" typed by client a: the text keeps its leading space, its
\* inner spaces, and ends with one NUL
C34_Witness ==
    /\ ReadLine(client, <<Cmd(98), tSpaced>>)
    /\ client.clientHandle = hA
    /\ client.out = <<<<3, BroadcastPdu(hA, tSpaced \o <<0>>)>>>>

\* ---- C37: the size of the payloads the client builds ----

(* C37: for a client whose handle has 1..100 bytes and a line of at most   *)
(* MAXBUF - 1 characters, the payload handleCommand builds is at most      *)
(* MAXBUF bytes: nothing is written outside buf[MAXBUF] and the PDU fits   *)
(* the server's receive buffer of MAXBUF bytes.                            *)
C37_PayloadFits ==
    (/\ client.op = "stdin" /\ client.line # NULL
     /\ Len(client.line) <= MAXBUF - 1
     /\ Len(client.clientHandle) \in 1..MAX_HANDLE)
    => /\ ~client.ub
       /\ \A i \in 1..Len(client.out) :
             /\ Len(client.out[i][2]) <= MAXBUF
             /\ ~recvPDU(Frame(client.out[i][2]), MAXBUF).exit

\* ---- C31: inbound PDUs whose lengths do not fit ----

\* a flag-4, 5, 6, 7 or 12 payload one of whose declared handle lengths, or
\* whose destination count, does not fit in the payload or exceeds MAX_HANDLE
Misfit(p) ==
    /\ p[1] \in {4, 5, 6, 7, 12}
    /\ LET sh == Shape(IF p[1] \in {7, 12} THEN <<4>> \o Tail(p) ELSE p)
       IN  ~sh.ok \/ \E i \in 1..Len(sh.lens) : sh.lens[i] > MAX_HANDLE

(* C31: when the PDU processSocketData receives in Ready is a flag-4, 5, 6 *)
(* or 7 PDU that does not fit, the iteration reads and copies nothing      *)
(* outside the payload and the handle buffers, prints nothing and leaves   *)
(* the client in Ready; a flag-12 PDU that does not fit, read during list  *)
(* assembly, is not read or copied outside either.                         *)
C31_MisfitDropped ==
    /\ (/\ client.op = "socket" /\ WholePdu(client.stream[1])
        /\ client.stream[1].data[1] # 12
        /\ Misfit(client.stream[1].data))
        => /\ ~client.ub
           /\ client.stdout = <<>>
           /\ client.pc = "clientControlLoop"
    /\ (/\ client.op = "socket" /\ WholePdu(client.stream[1])
        /\ client.stream[1].data[1] = 11
        /\ \E i \in 2..Min(client.nread, Len(client.stream)) :
                /\ WholePdu(client.stream[i])
                /\ client.stream[i].data[1] = 12
                /\ Misfit(client.stream[i].data))
        => ~client.ub /\ client.pc = "clientControlLoop"

\* ---- C35: a list request is answered and assembled ----

\* the iteration that just ended read a flag-11 PDU announcing c handles,
\* then c flag-12 PDUs, then the flag-13 PDU, and nothing more
WholeList(c) ==
    LET n == CountOf(c.stream[1].data) IN
    /\ c.nread = n + 2 /\ c.nread <= Len(c.stream)
    /\ \A i \in 2..(n + 1) :
            WholePdu(c.stream[i]) /\ c.stream[i].data[1] = 12
    /\ c.stream[n + 2] = Frame(<<13>>)

\* the user closed standard input and the client exited on it
UserLeft == client.pc = "exited" /\ client.op = "stdin" /\ client.line = NULL

(* C35: with the server's loop serving the client's descriptor whenever it *)
(* is ready again and again, and the connection delivering every PDU in    *)
(* order, whenever the registered client has sent more %L requests than it *)
(* has assembled lists, it later has assembled as many lists as it had     *)
(* sent requests and is back in clientControlLoop, unless the user closes  *)
(* standard input or the server process ends first; and every list         *)
(* assembly that ends has read the flag-11 PDU, as many flag-12 PDUs as it *)
(* announces and the flag-13 PDU.                                          *)
C35_ListCompletes ==
    /\ [](ListAssembled(client) => WholeList(client))
    /\ (net.asked > net.listed)
          ~> (\/ net.asked = net.listed /\ client.pc = "clientControlLoop"
              \/ UserLeft
              \/ ~running)

\* the second list the client asked for has been assembled: two handles,
\* its own and b's
C35_Witness ==
    /\ net.asked = 2 /\ net.listed = 2
    /\ ListAssembled(client) /\ WholeList(client)
    /\ CountOf(client.stream[1].data) = 2
    /\ client.pc = "clientControlLoop"
====
